---- MODULE Spec2Model ----
(***************************************************************************)
(* Model of volt-agent-playwright:                                         *)
(*   - the shared browser lifecycle (ensureBrowser, resetBrowserState,     *)
(*     safeBrowserOperation, setUserAgentTool, closeBrowserTool);          *)
(*   - the code generation session store (PlaywrightGenerator) and the     *)
(*     codegen tools built on it.                                          *)
(* JavaScript runs one callback at a time: every action below is the code  *)
(* that runs between two awaits of one async call, together with the       *)
(* completion of the awaited operation that resumes it.                    *)
(***************************************************************************)
EXTENDS Integers, Sequences, FiniteSets, TLC

\* ------------------------------------------------------------------ bounds
NumCallers == 3
MaxCalls == 3
MaxFailures == 1
MaxSessions == 2
MaxTime == 1
MaxOps == 3
MaxInFlight == 1
MaxLen == 3
MaxFiles == 2
MaxPieces == 2

\* undefined in the optional fields browser? / page? of ToolContext
NoHandle == 0

Callers == 1..NumCallers

VARIABLES
  \* ToolContext
  ctxBrowser,      \* context.browser: a browser handle or NoHandle
  ctxPage,         \* context.page: a page handle or NoHandle
  \* playwrightToolHandler.ts module state
  isInitializing,  \* the module-level flag
  \* the automation engine (Playwright)
  liveBrowsers,    \* browsers launched and still connected
  openPages,       \* pages created and not closed
  pageOwner,       \* page -> the browser it was created in
  nextBrowser,     \* next fresh browser handle
  nextPage,        \* next fresh page handle
  \* the async calls in flight, one per caller
  pc,              \* where the caller's call is suspended ("idle": no call)
  op,              \* which entry point the caller's call in flight invoked
  lb,              \* the browser the suspended await was issued on
  ret,             \* <<browser, page>> that ensureBrowser returned to the caller
  acquired,        \* outcome of the caller's latest ensureBrowser call
  \* history
  launches,        \* number of chromium.launch() calls made
  failures,        \* number of engine operations that failed
  calls,           \* number of tool invocations made
  startKind,       \* the state of the context in the initial state
  waited,          \* the caller's current call went through the wait loop
  lastEvent,       \* <<what the last step did, the caller that did it>>
  failedLaunches,  \* the browsers launched by a call that then raised
  otherContext,    \* the browser and page of a second ToolContext
  \* PlaywrightGenerator and the codegen tools
  sessions,        \* PlaywrightGenerator.activeSessions: id -> CodegenSession
  issuedIds,       \* the ids uuidv4() has returned
  now,             \* the clock read by Date.now()
  testFiles,       \* generated test files on disk: session id -> test code
  snapshots,       \* session snapshot files on disk: session id -> session
  ctxSession,      \* context.codegenSessionId
  task,            \* the generateTest / saveSessionToDisk calls in flight
  lastResult,      \* what the last completed generator operation gave back
  ops,             \* history: number of generator and codegen tool calls made
  issued,          \* history: session id -> the appends issued to it, in order
  appenders,       \* history: session id -> the callers that appended to it
  saved,           \* history: session id -> the session its snapshot was made of
  removedIds,      \* history: the ids removeSession has deleted
  closes,          \* how many times endSession has set the endTime of an id
  \* the generator applied to a drawn session
  subject,         \* the sessions handed to the generator
  generated,       \* what the generator made of each of them
  \* listSavedSessions applied to a drawn directory
  directory,       \* the sessions directory: its state and its file names
  listing          \* what listSavedSessions gave back for it

browserVars == <<ctxBrowser, ctxPage, isInitializing, liveBrowsers, openPages,
                 pageOwner, nextBrowser, nextPage, pc, op, lb, ret, acquired,
                 launches, failures, calls, startKind, waited, lastEvent,
                 failedLaunches, otherContext>>

persistVars == <<saved, removedIds, closes>>

storeVars == <<sessions, issuedIds, now, testFiles, snapshots, ctxSession,
               task, lastResult, ops, issued, appenders, persistVars>>

genVars == <<subject, generated, directory, listing>>

vars == <<browserVars, storeVars, genVars>>

\* context.browser is set and browser.isConnected()
BrowserConnected == ctxBrowser # NoHandle /\ ctxBrowser \in liveBrowsers

\* context.page is set and not page.isClosed()
PageOpen == ctxPage # NoHandle /\ ctxPage \in openPages

\* READY: a connected browser and an open page
Ready == BrowserConnected /\ PageOpen

\* Browser.close(): the browser disconnects and every page of it is closed
PagesOf(b) == {p \in DOMAIN pageOwner : pageOwner[p] = b}

engineVars == <<liveBrowsers, openPages, pageOwner, nextBrowser, nextPage>>
ctxVars == <<ctxBrowser, ctxPage>>

\* ----------------------------------------------------------- ensureBrowser

\* return { browser: context.browser, page: context.page } of ensureBrowser,
\* continued by the code of the tool kind that awaited it
Return(c, kind, b, p) ==
  /\ ret' = [ret EXCEPT ![c] = <<b, p>>]
  /\ acquired' = [acquired EXCEPT ![c] = "returned"]
  /\ lastEvent' = <<"ensureReturned", c>>
  /\ lb' = [lb EXCEPT ![c] = NoHandle]
  /\ op' = [op EXCEPT ![c] = IF kind = "ensureBrowser" THEN "none" ELSE kind]
  /\ pc' = [pc EXCEPT ![c] =
              CASE kind = "ensureBrowser" -> "idle"
                [] kind = "action" -> "operation"
                [] kind = "setUserAgent" -> "uaNewContext"]

\* ensureBrowser throws (line 65, or the rejected await of line 71);
\* safeBrowserOperation and setUserAgentTool rethrow to their caller
Raise(c) ==
  /\ acquired' = [acquired EXCEPT ![c] = "raised"]
  /\ pc' = [pc EXCEPT ![c] = "idle"]
  /\ lastEvent' = <<"ensureRaised", c>>
  /\ lb' = [lb EXCEPT ![c] = NoHandle]
  /\ op' = [op EXCEPT ![c] = "none"]
  /\ UNCHANGED ret

\* mutant: the launch branch does not take the initializing flag
CheckBrowserNoFlag(c, kind) ==
  IF ~BrowserConnected
  THEN /\ pc' = [pc EXCEPT ![c] = "launch"]
       /\ launches' = launches + 1
       /\ lastEvent' = <<"launching", c>>
       /\ op' = [op EXCEPT ![c] = kind]
       /\ UNCHANGED <<isInitializing, lb, ret, acquired>>
  ELSE IF ~PageOpen
  THEN /\ pc' = [pc EXCEPT ![c] = "newPageExisting"]
       /\ lb' = [lb EXCEPT ![c] = ctxBrowser]
       /\ lastEvent' = <<"creatingPage", c>>
       /\ op' = [op EXCEPT ![c] = kind]
       /\ UNCHANGED <<isInitializing, launches, ret, acquired>>
  ELSE /\ Return(c, kind, ctxBrowser, ctxPage)
       /\ UNCHANGED <<isInitializing, launches>>

\* mutant: no reuse of a connected browser, every call launches
CheckBrowserAlwaysLaunch(c, kind) ==
  /\ isInitializing' = TRUE
  /\ pc' = [pc EXCEPT ![c] = "launch"]
  /\ launches' = launches + 1
  /\ lastEvent' = <<"launching", c>>
  /\ op' = [op EXCEPT ![c] = kind]
  /\ UNCHANGED <<lb, ret, acquired>>

\* mutant: a missing or closed page makes the call launch a browser
CheckBrowserRelaunchForPage(c, kind) ==
  IF ~BrowserConnected \/ ~PageOpen
  THEN /\ isInitializing' = TRUE
       /\ pc' = [pc EXCEPT ![c] = "launch"]
       /\ launches' = launches + 1
       /\ lastEvent' = <<"launching", c>>
       /\ op' = [op EXCEPT ![c] = kind]
       /\ UNCHANGED <<lb, ret, acquired>>
  ELSE /\ Return(c, kind, ctxBrowser, ctxPage)
       /\ UNCHANGED <<isInitializing, launches>>

\* lines 42-75 of ensureBrowser, up to the first await it reaches
CheckBrowser(c, kind) ==
  IF ~BrowserConnected
  THEN /\ isInitializing' = TRUE
       /\ pc' = [pc EXCEPT ![c] = "launch"]
       /\ launches' = launches + 1
       /\ lastEvent' = <<"launching", c>>
       /\ op' = [op EXCEPT ![c] = kind]
       /\ UNCHANGED <<lb, ret, acquired>>
  ELSE IF ~PageOpen
  THEN /\ pc' = [pc EXCEPT ![c] = "newPageExisting"]
       /\ lb' = [lb EXCEPT ![c] = ctxBrowser]
       /\ lastEvent' = <<"creatingPage", c>>
       /\ op' = [op EXCEPT ![c] = kind]
       /\ UNCHANGED <<isInitializing, launches, ret, acquired>>
  ELSE /\ Return(c, kind, ctxBrowser, ctxPage)
       /\ UNCHANGED <<isInitializing, launches>>

\* lines 33-39 then 42-75 of ensureBrowser, up to the first await it reaches
EnterEnsureBrowser(c, kind) ==
  IF isInitializing
  THEN /\ pc' = [pc EXCEPT ![c] = "wait"]
       /\ waited' = [waited EXCEPT ![c] = TRUE]
       /\ lastEvent' = <<"waiting", c>>
       /\ op' = [op EXCEPT ![c] = kind]
       /\ UNCHANGED <<isInitializing, launches, lb, ret, acquired>>
  ELSE /\ waited' = [waited EXCEPT ![c] = FALSE]
       /\ CheckBrowser(c, kind)

\* a caller invokes ensureBrowser directly (as getUserAgentTool does)
EnsureBrowserCall(c) ==
  /\ UNCHANGED <<storeVars, genVars, failedLaunches, otherContext>>
  /\ pc[c] = "idle"
  /\ calls < MaxCalls
  /\ calls' = calls + 1
  /\ EnterEnsureBrowser(c, "ensureBrowser")
  /\ UNCHANGED <<ctxVars, engineVars, failures, startKind>>

\* mutant: the waiter sleeps once and goes on without testing the flag again
WaitWakeNoRecheck(c) ==
  /\ UNCHANGED <<storeVars, genVars, failedLaunches, otherContext>>
  /\ pc[c] = "wait"
  /\ CheckBrowser(c, op[c])
  /\ UNCHANGED <<ctxVars, engineVars, failures, calls, startKind, waited>>

\* lines 36-38: the timer of a waiter fires and the flag is down; the loop ends
\* and the call goes on with line 42 (a wake-up with the flag up changes nothing)
WaitWake(c) ==
  /\ UNCHANGED <<storeVars, genVars, failedLaunches, otherContext>>
  /\ pc[c] = "wait"
  /\ ~isInitializing
  /\ CheckBrowser(c, op[c])
  /\ UNCHANGED <<ctxVars, engineVars, failures, calls, startKind, waited>>

\* the engine operation awaited by a call fails: by itself (bounded by
\* MaxFailures) or because the browser b it was issued on has disconnected
CanFail(b) == failures < MaxFailures \/ b \notin liveBrowsers
FailCount(b) == IF b \in liveBrowsers THEN failures + 1 ELSE failures

\* LaunchDone without the finally block of lines 66-68 on the failure path
LaunchDoneKeepsFlag(c) ==
  /\ UNCHANGED <<storeVars, genVars, failedLaunches, otherContext>>
  /\ pc[c] = "launch"
  /\ \/ /\ liveBrowsers' = liveBrowsers \cup {nextBrowser}
        /\ nextBrowser' = nextBrowser + 1
        /\ ctxBrowser' = nextBrowser
        /\ lb' = [lb EXCEPT ![c] = nextBrowser]
        /\ pc' = [pc EXCEPT ![c] = "newContext"]
        /\ lastEvent' = <<"launched", c>>
        /\ UNCHANGED <<ctxPage, isInitializing, openPages, pageOwner, nextPage,
                       op, ret, acquired, failures>>
     \/ /\ failures < MaxFailures
        /\ failures' = failures + 1
        /\ Raise(c)
        /\ UNCHANGED <<ctxVars, engineVars, isInitializing>>
  /\ UNCHANGED <<launches, calls, startKind, waited>>

\* lines 48-51: chromium.launch() completes; on success line 54 is reached
LaunchDone(c) ==
  /\ UNCHANGED <<storeVars, genVars, failedLaunches, otherContext>>
  /\ pc[c] = "launch"
  /\ \/ /\ liveBrowsers' = liveBrowsers \cup {nextBrowser}
        /\ nextBrowser' = nextBrowser + 1
        /\ ctxBrowser' = nextBrowser
        /\ lb' = [lb EXCEPT ![c] = nextBrowser]
        /\ pc' = [pc EXCEPT ![c] = "newContext"]
        /\ lastEvent' = <<"launched", c>>
        /\ UNCHANGED <<ctxPage, isInitializing, openPages, pageOwner, nextPage,
                       op, ret, acquired, failures>>
     \/ /\ failures < MaxFailures
        /\ failures' = failures + 1
        /\ isInitializing' = FALSE
        /\ Raise(c)
        /\ UNCHANGED <<ctxVars, engineVars>>
  /\ UNCHANGED <<launches, calls, startKind, waited>>

\* lines 54-60: browser.newContext() completes; on success line 61 is reached
NewContextDone(c) ==
  /\ UNCHANGED <<storeVars, genVars, otherContext>>
  /\ pc[c] = "newContext"
  /\ \/ /\ lb[c] \in liveBrowsers
        /\ pc' = [pc EXCEPT ![c] = "newPage"]
        /\ lastEvent' = <<"contextCreated", c>>
        /\ UNCHANGED <<isInitializing, op, lb, ret, acquired, failures,
                       failedLaunches>>
     \/ /\ CanFail(lb[c])
        /\ failures' = FailCount(lb[c])
        /\ isInitializing' = FALSE
        /\ Raise(c)
        /\ failedLaunches' = failedLaunches \cup {lb[c]}
  /\ UNCHANGED <<ctxVars, engineVars, launches, calls, startKind, waited>>

\* lines 61-68 and 75: browserContext.newPage() completes
NewPageDone(c) ==
  /\ UNCHANGED <<storeVars, genVars, otherContext>>
  /\ pc[c] = "newPage"
  /\ \/ /\ lb[c] \in liveBrowsers
        /\ openPages' = openPages \cup {nextPage}
        /\ pageOwner' = pageOwner @@ (nextPage :> lb[c])
        /\ nextPage' = nextPage + 1
        /\ ctxPage' = nextPage
        /\ isInitializing' = FALSE
        /\ Return(c, op[c], ctxBrowser, nextPage)
        /\ UNCHANGED <<failures, failedLaunches>>
     \/ /\ CanFail(lb[c])
        /\ failures' = FailCount(lb[c])
        /\ isInitializing' = FALSE
        /\ Raise(c)
        /\ failedLaunches' = failedLaunches \cup {lb[c]}
        /\ UNCHANGED <<ctxPage, openPages, pageOwner, nextPage>>
  /\ UNCHANGED <<ctxBrowser, liveBrowsers, nextBrowser, launches, calls,
                 startKind, waited>>

\* lines 69-75: context.browser.newPage() completes
NewPageExistingDone(c) ==
  /\ UNCHANGED <<storeVars, genVars, failedLaunches, otherContext>>
  /\ pc[c] = "newPageExisting"
  /\ \/ /\ lb[c] \in liveBrowsers
        /\ openPages' = openPages \cup {nextPage}
        /\ pageOwner' = pageOwner @@ (nextPage :> lb[c])
        /\ nextPage' = nextPage + 1
        /\ ctxPage' = nextPage
        /\ Return(c, op[c], ctxBrowser, nextPage)
        /\ UNCHANGED failures
     \/ /\ CanFail(lb[c])
        /\ failures' = FailCount(lb[c])
        /\ Raise(c)
        /\ UNCHANGED <<ctxPage, openPages, pageOwner, nextPage>>
  /\ UNCHANGED <<ctxBrowser, isInitializing, liveBrowsers, nextBrowser,
                 launches, calls, startKind, waited>>

\* --------------------------------------------- ensureBrowser, second context

\* a ToolContext that holds no browser and no page
NoContext == [browser |-> NoHandle, page |-> NoHandle]

\* the second context holds a connected browser and an open page
OtherReady ==
  /\ otherContext.browser \in liveBrowsers
  /\ otherContext.page \in openPages

\* lines 42-75 for the second context while it is READY: neither branch is
\* taken and line 75 returns its handles
OtherReturn(c) ==
  /\ ret' = [ret EXCEPT ![c] = <<otherContext.browser, otherContext.page>>]
  /\ acquired' = [acquired EXCEPT ![c] = "returned"]
  /\ lastEvent' = <<"ensureReturned", c>>
  /\ pc' = [pc EXCEPT ![c] = "idle"]

\* a caller invokes ensureBrowser on the second context, which is READY:
\* lines 33-39 test the flag of the module, then lines 42-75 run
OtherEnsureBrowserCall(c) ==
  /\ UNCHANGED <<storeVars, genVars, failedLaunches, otherContext>>
  /\ pc[c] = "idle"
  /\ OtherReady
  /\ calls < MaxCalls
  /\ calls' = calls + 1
  /\ IF isInitializing
     THEN /\ pc' = [pc EXCEPT ![c] = "waitOther"]
          /\ waited' = [waited EXCEPT ![c] = TRUE]
          /\ lastEvent' = <<"waiting", c>>
          /\ UNCHANGED <<ret, acquired>>
     ELSE /\ waited' = [waited EXCEPT ![c] = FALSE]
          /\ OtherReturn(c)
  /\ UNCHANGED <<ctxVars, engineVars, isInitializing, op, lb, launches,
                 failures, startKind>>

\* lines 36-38 for a waiter of the second context: the flag is down
OtherWaitWake(c) ==
  /\ UNCHANGED <<storeVars, genVars, failedLaunches, otherContext>>
  /\ pc[c] = "waitOther"
  /\ ~isInitializing
  /\ OtherReady
  /\ OtherReturn(c)
  /\ UNCHANGED <<ctxVars, engineVars, isInitializing, op, lb, launches,
                 failures, calls, startKind, waited>>

\* ------------------------------------------------ safeBrowserOperation tools

\* an action tool (navigate, click, screenshot, ...) is invoked:
\* safeBrowserOperation awaits ensureBrowser(context)
ActionToolCall(c) ==
  /\ UNCHANGED <<storeVars, genVars, failedLaunches, otherContext>>
  /\ pc[c] = "idle"
  /\ calls < MaxCalls
  /\ calls' = calls + 1
  /\ EnterEnsureBrowser(c, "action")
  /\ UNCHANGED <<ctxVars, engineVars, failures, startKind>>

\* return await operation(page): the operation on the page ensureBrowser
\* returned completes or fails; neither touches the context
OperationDone(c) ==
  /\ UNCHANGED <<storeVars, genVars, failedLaunches, otherContext>>
  /\ pc[c] = "operation"
  /\ pc' = [pc EXCEPT ![c] = "idle"]
  /\ op' = [op EXCEPT ![c] = "none"]
  /\ lastEvent' = <<"operationDone", c>>
  /\ UNCHANGED <<ctxVars, engineVars, isInitializing, lb, ret, acquired,
                 launches, failures, calls, startKind, waited>>

\* ------------------------------------------------------- setUserAgentTool

\* setUserAgentTool.execute is invoked: it awaits ensureBrowser(toolContext)
SetUserAgentCall(c) ==
  /\ UNCHANGED <<storeVars, genVars, failedLaunches, otherContext>>
  /\ pc[c] = "idle"
  /\ calls < MaxCalls
  /\ calls' = calls + 1
  /\ EnterEnsureBrowser(c, "setUserAgent")
  /\ UNCHANGED <<ctxVars, engineVars, failures, startKind>>

\* lines 286-289: browser.newContext({userAgent}) completes, on the browser
\* ensureBrowser returned; a failure is rethrown by the tool
SetUserAgentNewContextDone(c) ==
  /\ UNCHANGED <<storeVars, genVars, failedLaunches, otherContext>>
  /\ pc[c] = "uaNewContext"
  /\ \/ /\ ret[c][1] \in liveBrowsers
        /\ pc' = [pc EXCEPT ![c] = "uaNewPage"]
        /\ lastEvent' = <<"contextCreated", c>>
        /\ UNCHANGED <<op, failures>>
     \/ /\ CanFail(ret[c][1])
        /\ failures' = FailCount(ret[c][1])
        /\ pc' = [pc EXCEPT ![c] = "idle"]
        /\ op' = [op EXCEPT ![c] = "none"]
        /\ lastEvent' = <<"toolRaised", c>>
  /\ UNCHANGED <<ctxVars, engineVars, isInitializing, lb, ret, acquired,
                 launches, calls, startKind, waited>>

\* lines 292-301: newContext.newPage() completes and the tool stores the new
\* page in the context; the page that was there stays open
SetUserAgentNewPageDone(c) ==
  /\ UNCHANGED <<storeVars, genVars, failedLaunches, otherContext>>
  /\ pc[c] = "uaNewPage"
  /\ \/ /\ ret[c][1] \in liveBrowsers
        /\ openPages' = openPages \cup {nextPage}
        /\ pageOwner' = pageOwner @@ (nextPage :> ret[c][1])
        /\ nextPage' = nextPage + 1
        /\ ctxPage' = nextPage
        /\ pc' = [pc EXCEPT ![c] = "idle"]
        /\ lastEvent' = <<"toolReturned", c>>
        /\ UNCHANGED failures
     \/ /\ CanFail(ret[c][1])
        /\ failures' = FailCount(ret[c][1])
        /\ pc' = [pc EXCEPT ![c] = "idle"]
        /\ lastEvent' = <<"toolRaised", c>>
        /\ UNCHANGED <<ctxPage, openPages, pageOwner, nextPage>>
  /\ op' = [op EXCEPT ![c] = "none"]
  /\ UNCHANGED <<ctxBrowser, liveBrowsers, nextBrowser, isInitializing, lb,
                 ret, acquired, launches, calls, startKind, waited>>

\* ------------------------------------------------------- closeBrowserTool

\* resetBrowserState(context?): clears the handles of the context it is given
\* and does nothing when it is given none
ResetBrowserState(given) ==
  IF given
  THEN ctxBrowser' = NoHandle /\ ctxPage' = NoHandle
  ELSE UNCHANGED ctxVars

\* closeBrowserTool.execute, lines 139-158, up to the await of line 145;
\* line 154 calls resetBrowserState() with no argument
CloseBrowserCall(c) ==
  /\ UNCHANGED <<storeVars, genVars, failedLaunches, otherContext>>
  /\ pc[c] = "idle"
  /\ calls < MaxCalls
  /\ calls' = calls + 1
  /\ IF ctxBrowser # NoHandle
     THEN IF ctxBrowser \in liveBrowsers
          THEN /\ pc' = [pc EXCEPT ![c] = "closing"]
               /\ op' = [op EXCEPT ![c] = "closeBrowser"]
               /\ lb' = [lb EXCEPT ![c] = ctxBrowser]
               /\ lastEvent' = <<"closing", c>>
               /\ UNCHANGED ctxVars
          ELSE /\ ResetBrowserState(FALSE)
               /\ lastEvent' = <<"closeReturned", c>>
               /\ UNCHANGED <<pc, op, lb>>
     ELSE /\ lastEvent' = <<"closeSkipped", c>>
          /\ UNCHANGED <<ctxVars, pc, op, lb>>
  /\ UNCHANGED <<engineVars, isInitializing, ret, acquired, launches, failures,
                 startKind, waited>>

\* lines 145-156: browser.close() completes, or fails and the failure is
\* logged; then resetBrowserState() runs, again with no argument
CloseBrowserDone(c) ==
  /\ UNCHANGED <<storeVars, genVars, failedLaunches, otherContext>>
  /\ pc[c] = "closing"
  /\ \/ /\ liveBrowsers' = liveBrowsers \ {lb[c]}
        /\ openPages' = openPages \ PagesOf(lb[c])
        /\ UNCHANGED failures
     \/ /\ failures < MaxFailures
        /\ lb[c] \in liveBrowsers
        /\ failures' = failures + 1
        /\ UNCHANGED <<liveBrowsers, openPages>>
  /\ ResetBrowserState(FALSE)
  /\ pc' = [pc EXCEPT ![c] = "idle"]
  /\ op' = [op EXCEPT ![c] = "none"]
  /\ lb' = [lb EXCEPT ![c] = NoHandle]
  /\ lastEvent' = <<"closeReturned", c>>
  /\ UNCHANGED <<pageOwner, nextBrowser, nextPage, isInitializing, ret,
                 acquired, launches, calls, startKind, waited>>

\* ---------------------------------------------------- PlaywrightGenerator

\* undefined as a session id (context.codegenSessionId, args.sessionId)
NoSession == 0
\* undefined as session.endTime
NoTime == 0

SessionIds == 1..MaxSessions

\* PlaywrightGenerator.DEFAULT_OPTIONS, the options of the exported singleton
DefaultOptions ==
  [outputPath |-> "tests", testNamePrefix |-> "VoltTest",
   includeComments |-> "true"]

\* { ...base, ...over }
MergeOptions(base, over) ==
  [k \in DOMAIN base \cup DOMAIN over |->
     IF k \in DOMAIN over THEN over[k] ELSE base[k]]

\* the options object startCodegenSessionTool builds from its arguments:
\* all three keys, undefined for an argument that was not given
OptionArgs ==
  { [outputPath |-> "undefined", testNamePrefix |-> "undefined",
     includeComments |-> "undefined"],
    [outputPath |-> "out", testNamePrefix |-> "Login Test",
     includeComments |-> "false"] }

NoParameters == [k \in {} |-> ""]

\* the (toolName, parameters) pairs recorded in the model
ActionInputs ==
  { [toolName |-> "navigate", parameters |-> [url |-> "https://example.com"]],
    [toolName |-> "click", parameters |-> NoParameters],
    [toolName |-> "frobnicate", parameters |-> NoParameters] }

\* generateListInteractiveElementsStep (lines 508-510)
ListInteractiveElementsStep ==
  <<"const elements = await page.$$('a, button, [tabindex], [contenteditable]);">>

\* the backtick that delimits a template literal in the generated code
Backtick == "BACKTICK"

\* mutant: an absent parameter is inserted as the text undefined
QuotedUndefined(parameters, key) ==
  IF key \in DOMAIN parameters /\ parameters[key] \notin {"", "undefined"}
  THEN <<Backtick, parameters[key], Backtick>>
  ELSE <<Backtick, "undefined", Backtick>>

\* a parameter as the generate...Step methods insert it: the value between
\* backticks when it is truthy, else an empty string literal
Quoted(parameters, key) ==
  IF key \in DOMAIN parameters /\ parameters[key] \notin {"", "undefined"}
  THEN <<Backtick, parameters[key], Backtick>>
  ELSE <<"\"\"">>

\* mutant: the case label playwright_fill is missing
ConvertActionToStepNoFillAlias(action) ==
  LET n == action.toolName
      p == action.parameters
  IN CASE n \in {"playwright_navigate", "navigate"} ->
            <<"await page.goto(">> \o Quoted(p, "url") \o <<");">>
       [] n = "goBack" -> <<"await page.goBack();">>
       [] n = "goForward" -> <<"await page.goForward();">>
       [] n = "refreshPage" -> <<"await page.reload();">>
       [] n = "closeBrowser" -> <<"await browser.close();">>
       [] n = "type" ->
            <<"await page.fill(">> \o Quoted(p, "selector") \o <<", ">>
              \o Quoted(p, "text") \o <<");">>
       [] n \in {"playwright_click", "click"} ->
            <<"await page.click(">> \o Quoted(p, "selector") \o <<");">>
       [] n = "getTextTool" ->
            <<"const text = await page.textContent(">>
              \o Quoted(p, "selector") \o <<");">>
       [] n \in {"playwright_select", "selectOption"} ->
            <<"await page.selectOption(">> \o Quoted(p, "selector")
              \o <<", ">> \o Quoted(p, "value") \o <<");">>
       [] n = "check" ->
            <<"await page.check(">> \o Quoted(p, "selector") \o <<");">>
       [] n = "uncheck" ->
            <<"await page.uncheck(">> \o Quoted(p, "selector") \o <<");">>
       [] n \in {"playwright_hover", "hover"} ->
            <<"await page.hover(">> \o Quoted(p, "selector") \o <<");">>
       [] n = "pressKey" ->
            <<"await page.press(">> \o Quoted(p, "key") \o <<");">>
       [] n = "waitForElement" ->
            <<"await page.waitForSelector(">> \o Quoted(p, "selector")
              \o <<");">>
       [] n \in {"playwright_screenshot", "screenshot"} ->
            <<"await page.screenshot({ path: ">> \o Quoted(p, "path")
              \o <<" });">>
       [] n = "saveToFile" ->
            <<"await fs.writeFile(">> \o Quoted(p, "filePath") \o <<", ">>
              \o Quoted(p, "data") \o <<");">>
       [] n = "exportPdf" ->
            <<"await page.pdf({ path: ">> \o Quoted(p, "path") \o <<" });">>
       [] n = "extractData" -> <<"// Extract data logic here">>
       [] n \in {"playwright_expect_response", "expectResponse"} ->
            <<"await page.waitForResponse(response => response.url() === ">>
              \o Quoted(p, "url") \o <<");">>
       [] n \in {"playwright_assert_response", "assertResponse"} ->
            <<"const response = await page.waitForResponse(">>
              \o Quoted(p, "url") \o <<");">>
       [] n \in {"playwright_custom_user_agent", "setUserAgent"} ->
            <<"await context.setUserAgent(">> \o Quoted(p, "userAgent")
              \o <<");">>
       [] n = "getUserAgent" ->
            <<"const userAgent = await context.userAgent();">>
       [] n = "getVisibleText" ->
            <<"const visibleText = await page.locator(">>
              \o Quoted(p, "selector") \o <<").textContent();">>
       [] n = "getVisibleHtml" ->
            <<"const visibleHtml = await page.locator(">>
              \o Quoted(p, "selector") \o <<").innerHTML();">>
       [] n = "listInteractiveElements" -> ListInteractiveElementsStep
       [] OTHER -> <<>>

\* convertActionToStep: the statement as a sequence of text pieces, <<>> for
\* the null of an unsupported tool
ConvertActionToStep(action) ==
  LET n == action.toolName
      p == action.parameters
  IN CASE n \in {"playwright_navigate", "navigate"} ->
            <<"await page.goto(">> \o Quoted(p, "url") \o <<");">>
       [] n = "goBack" -> <<"await page.goBack();">>
       [] n = "goForward" -> <<"await page.goForward();">>
       [] n = "refreshPage" -> <<"await page.reload();">>
       [] n = "closeBrowser" -> <<"await browser.close();">>
       [] n \in {"playwright_fill", "type"} ->
            <<"await page.fill(">> \o Quoted(p, "selector") \o <<", ">>
              \o Quoted(p, "text") \o <<");">>
       [] n \in {"playwright_click", "click"} ->
            <<"await page.click(">> \o Quoted(p, "selector") \o <<");">>
       [] n = "getTextTool" ->
            <<"const text = await page.textContent(">>
              \o Quoted(p, "selector") \o <<");">>
       [] n \in {"playwright_select", "selectOption"} ->
            <<"await page.selectOption(">> \o Quoted(p, "selector")
              \o <<", ">> \o Quoted(p, "value") \o <<");">>
       [] n = "check" ->
            <<"await page.check(">> \o Quoted(p, "selector") \o <<");">>
       [] n = "uncheck" ->
            <<"await page.uncheck(">> \o Quoted(p, "selector") \o <<");">>
       [] n \in {"playwright_hover", "hover"} ->
            <<"await page.hover(">> \o Quoted(p, "selector") \o <<");">>
       [] n = "pressKey" ->
            <<"await page.press(">> \o Quoted(p, "key") \o <<");">>
       [] n = "waitForElement" ->
            <<"await page.waitForSelector(">> \o Quoted(p, "selector")
              \o <<");">>
       [] n \in {"playwright_screenshot", "screenshot"} ->
            <<"await page.screenshot({ path: ">> \o Quoted(p, "path")
              \o <<" });">>
       [] n = "saveToFile" ->
            <<"await fs.writeFile(">> \o Quoted(p, "filePath") \o <<", ">>
              \o Quoted(p, "data") \o <<");">>
       [] n = "exportPdf" ->
            <<"await page.pdf({ path: ">> \o Quoted(p, "path") \o <<" });">>
       [] n = "extractData" -> <<"// Extract data logic here">>
       [] n \in {"playwright_expect_response", "expectResponse"} ->
            <<"await page.waitForResponse(response => response.url() === ">>
              \o Quoted(p, "url") \o <<");">>
       [] n \in {"playwright_assert_response", "assertResponse"} ->
            <<"const response = await page.waitForResponse(">>
              \o Quoted(p, "url") \o <<");">>
       [] n \in {"playwright_custom_user_agent", "setUserAgent"} ->
            <<"await context.setUserAgent(">> \o Quoted(p, "userAgent")
              \o <<");">>
       [] n = "getUserAgent" ->
            <<"const userAgent = await context.userAgent();">>
       [] n = "getVisibleText" ->
            <<"const visibleText = await page.locator(">>
              \o Quoted(p, "selector") \o <<").textContent();">>
       [] n = "getVisibleHtml" ->
            <<"const visibleHtml = await page.locator(">>
              \o Quoted(p, "selector") \o <<").innerHTML();">>
       [] n = "listInteractiveElements" -> ListInteractiveElementsStep
       [] OTHER -> <<>>

\* the case labels of convertActionToStep (lines 298-369)
TranslationTable ==
  {"playwright_navigate", "navigate", "goBack", "goForward", "refreshPage",
   "closeBrowser", "playwright_fill", "type", "playwright_click", "click",
   "getTextTool", "playwright_select", "selectOption", "check", "uncheck",
   "playwright_hover", "hover", "pressKey", "waitForElement",
   "playwright_screenshot", "screenshot", "saveToFile", "exportPdf",
   "extractData", "playwright_expect_response", "expectResponse",
   "playwright_assert_response", "assertResponse",
   "playwright_custom_user_agent", "setUserAgent", "getUserAgent",
   "getVisibleText", "getVisibleHtml", "listInteractiveElements"}

\* the parameters the generate...Step method of a tool name reads
SlotsOf(toolName) ==
  CASE toolName \in {"playwright_navigate", "navigate",
                     "playwright_expect_response", "expectResponse",
                     "playwright_assert_response", "assertResponse"} -> {"url"}
    [] toolName \in {"playwright_fill", "type"} -> {"selector", "text"}
    [] toolName \in {"playwright_select", "selectOption"} ->
         {"selector", "value"}
    [] toolName \in {"playwright_click", "click", "getTextTool", "check",
                     "uncheck", "playwright_hover", "hover", "waitForElement",
                     "getVisibleText", "getVisibleHtml"} -> {"selector"}
    [] toolName = "pressKey" -> {"key"}
    [] toolName \in {"playwright_screenshot", "screenshot", "exportPdf"} ->
         {"path"}
    [] toolName = "saveToFile" -> {"filePath", "data"}
    [] toolName \in {"playwright_custom_user_agent", "setUserAgent"} ->
         {"userAgent"}
    [] OTHER -> {}

\* console.warn of convertActionToStep (line 371): one message for each
\* action that takes the default branch
RECURSIVE WarningsOf(_)
WarningsOf(actions) ==
  IF actions = <<>> THEN <<>>
  ELSE (IF ConvertActionToStep(Head(actions)) = <<>>
        THEN << <<"Unsupported tool: ", Head(actions).toolName>> >>
        ELSE <<>>) \o WarningsOf(Tail(actions))

\* mutant: the steps are collected in reverse order
RECURSIVE StepsOfReversed(_)
StepsOfReversed(actions) ==
  IF actions = <<>> THEN <<>>
  ELSE LET step == ConvertActionToStep(Head(actions))
       IN StepsOfReversed(Tail(actions))
            \o (IF step # <<>> THEN <<step>> ELSE <<>>)

\* the steps createTestCase collects: the non-null steps, in action order
RECURSIVE StepsOf(_)
StepsOf(actions) ==
  IF actions = <<>> THEN <<>>
  ELSE LET step == ConvertActionToStep(Head(actions))
       IN (IF step # <<>> THEN <<step>> ELSE <<>>) \o StepsOf(Tail(actions))

\* new Date(startTime).toISOString().split("T")[0]; the clock ticks twice a day
DateOf(time) == time \div 2

\* createTestCase: the name is built from the generator's own options
CreateTestCase(session) ==
  [name |-> <<DefaultOptions.testNamePrefix, "_", DateOf(session.startTime)>>,
   steps |-> StepsOf(session.actions),
   imports |-> <<"test", "expect">>]

\* generateTestCode: the text is a function of the test case alone
GenerateTestCode(testCase) ==
  [imports |-> testCase.imports, test |-> testCase.name,
   body |-> testCase.steps]

\* an object without the properties whose value is undefined, as
\* JSON.stringify writes it
DropUndefined(object) ==
  [k \in {key \in DOMAIN object : object[key] # "undefined"} |-> object[k]]

\* JSON.stringify of a CodegenAction: result is left out when undefined
StringifyAction(action) ==
  LET written == [toolName |-> action.toolName,
                  parameters |-> DropUndefined(action.parameters),
                  timestamp |-> action.timestamp]
  IN IF action.result = "undefined" THEN written
     ELSE written @@ [result |-> action.result]

\* mutant: the options are not written
JsonStringifyNoOptions(session) ==
  LET written == [id |-> session.id,
                  actions |-> [i \in DOMAIN session.actions |->
                                 StringifyAction(session.actions[i])],
                  startTime |-> session.startTime,
                  options |-> DropUndefined([k \in {} |-> ""])]
  IN IF session.endTime = NoTime THEN written
     ELSE written @@ [endTime |-> session.endTime]

\* JSON.stringify(session, null, 2) (line 180): the text, as the tree of
\* the properties it writes; endTime and the options that are undefined
\* are left out
JsonStringify(session) ==
  LET written == [id |-> session.id,
                  actions |-> [i \in DOMAIN session.actions |->
                                 StringifyAction(session.actions[i])],
                  startTime |-> session.startTime,
                  options |-> DropUndefined(session.options)]
  IN IF session.endTime = NoTime THEN written
     ELSE written @@ [endTime |-> session.endTime]

\* a property of a parsed object as the program reads it: undefined when
\* the text does not have it
Read(object, key, undefined) ==
  IF key \in DOMAIN object THEN object[key] ELSE undefined

\* JSON.parse(sessionData) as CodegenSession (lines 203, 254)
JsonParse(text) ==
  [id |-> Read(text, "id", NoSession),
   actions |-> [i \in DOMAIN text.actions |->
                  [toolName |-> text.actions[i].toolName,
                   parameters |-> text.actions[i].parameters,
                   timestamp |-> text.actions[i].timestamp,
                   result |-> Read(text.actions[i], "result", "undefined")]],
   startTime |-> text.startTime,
   endTime |-> Read(text, "endTime", NoTime),
   options |-> [k \in {"outputPath", "testNamePrefix", "includeComments"} |->
                  Read(text.options, k, "undefined")]]

\* testNamePrefix.toLowerCase().replace(/[^a-z0-9_]/g, "_") (lines 531-533)
Sanitize(prefix) ==
  CASE prefix = "VoltTest" -> "volttest"
    [] prefix = "Login Test" -> "login_test"

\* getOutputFilePath (lines 526-536): the directory and the file name are
\* built from the options of the generator, whatever the session holds
GetOutputFilePath(session) ==
  <<DefaultOptions.outputPath, "/",
    Sanitize(DefaultOptions.testNamePrefix), "_", session.id, ".spec.ts">>

\* the synchronous part of generateTest (lines 140-142, 151-155): the test
\* case, its text, the file path and the warnings logged on the way
GenerateTestResult(session) ==
  [testCase |-> CreateTestCase(session),
   testCode |-> GenerateTestCode(CreateTestCase(session)),
   filePath |-> GetOutputFilePath(session),
   warnings |-> WarningsOf(session.actions)]

NoTask == [kind |-> "none"]

\* the generateTest and saveSessionToDisk calls that can be in flight at once
Slots == 1..MaxInFlight

\* the slot a new call takes
FreeSlot == CHOOSE s \in Slots :
              task[s] = NoTask /\ \A r \in Slots : task[r] = NoTask => s <= r

\* the message of an Error: the text the method puts first and the session
\* id it writes into it, then the message of the error it caught and the
\* file path that message holds (NoSession where there is none)
NoMessage == [prefix |-> "", id |-> NoSession, cause |-> "", path |-> NoSession]

\* what a generator method gave back: value is its return value ("raised"
\* when it threw), payload what the tool built on it returned, if any,
\* message the message of the error loadSessionFromDisk or importSession threw
Result(o, id, known, value, payload) ==
  [op |-> o, known |-> known, value |-> value, payload |-> payload,
   message |-> NoMessage]

\* createSession (lines 53-63), with the id uuidv4() returned
CreateSession(id, options) ==
  [id |-> id, actions |-> <<>>, startTime |-> now, endTime |-> NoTime,
   options |-> MergeOptions(DefaultOptions, options)]

\* the CodegenAction addAction builds (lines 80-85)
NewAction(toolName, parameters) ==
  [toolName |-> toolName, parameters |-> parameters, timestamp |-> now,
   result |-> "undefined"]

\* mutant: the action list is rebuilt from the new action alone
AddActionOverwrite(id, toolName, parameters) ==
  IF id \notin DOMAIN sessions
  THEN sessions
  ELSE [sessions EXCEPT
          ![id].actions = <<NewAction(toolName, parameters)>>]

\* mutant: an unknown id gets a session created for it
AddActionCreates(id, toolName, parameters) ==
  IF id \notin DOMAIN sessions
  THEN sessions @@ (id :> [CreateSession(id, DefaultOptions) EXCEPT
                             !.actions = <<NewAction(toolName, parameters)>>])
  ELSE [sessions EXCEPT
          ![id].actions = Append(@, NewAction(toolName, parameters))]

\* mutant: a session that has an endTime takes no more actions
AddActionIfOpen(id, toolName, parameters) ==
  IF id \notin DOMAIN sessions
  THEN sessions
  ELSE IF sessions[id].endTime # NoTime
  THEN sessions
  ELSE [sessions EXCEPT
          ![id].actions = Append(@, NewAction(toolName, parameters))]

\* addAction (lines 68-89): the registry after the call
AddAction(id, toolName, parameters) ==
  IF id \notin DOMAIN sessions
  THEN sessions
  ELSE [sessions EXCEPT
          ![id].actions = Append(@, NewAction(toolName, parameters))]

\* addAction (lines 74-78, 88): null for an unknown id, else the action
AddActionValue(id) == IF id \notin DOMAIN sessions THEN "null" ELSE "action"

\* mutant: the id is the lowest one, issued before or not
FreshIdLowest == CHOOSE id \in SessionIds : \A other \in SessionIds : id <= other

\* the fresh id uuidv4() returns
FreshId == CHOOSE id \in SessionIds \ issuedIds :
             \A other \in SessionIds \ issuedIds : id <= other

\* startCodegenSessionTool.execute (lines 583-604)
StartCodegenSession(c) ==
  /\ ops < MaxOps
  /\ ops' = ops + 1
  /\ SessionIds \ issuedIds # {}
  /\ \E options \in OptionArgs :
       sessions' = sessions @@ (FreshId :> CreateSession(FreshId, options))
  /\ issuedIds' = issuedIds \cup {FreshId}
  /\ issued' = issued @@ (FreshId :> <<>>)
  /\ appenders' = appenders @@ (FreshId :> {})
  /\ ctxSession' = FreshId
  /\ lastResult' = Result("createSession", FreshId, FALSE, "session", "result")
  /\ UNCHANGED <<now, testFiles, snapshots, task>>
  /\ UNCHANGED <<browserVars, genVars, persistVars>>

\* option objects that are not a CodegenOptions: a number as outputPath, a
\* number as testNamePrefix, a string as includeComments; 42 stands for
\* the number, true and false for the booleans
MalformedOptionArgs ==
  { [outputPath |-> "42", testNamePrefix |-> "undefined",
     includeComments |-> "undefined"],
    [outputPath |-> "undefined", testNamePrefix |-> "42",
     includeComments |-> "undefined"],
    [outputPath |-> "undefined", testNamePrefix |-> "undefined",
     includeComments |-> "yes"] }

\* typeof value
TypeOf(value) ==
  CASE value = "undefined" -> "undefined"
    [] value = "42" -> "number"
    [] value \in {"true", "false"} -> "boolean"
    [] OTHER -> "string"

\* validateOptions (lines 35-48), which only the constructor calls: the
\* message of the error it throws, or ok
ValidateOptions(options) ==
  CASE options.outputPath \notin {"undefined", ""}
         /\ TypeOf(options.outputPath) # "string" ->
         "outputPath must be a string"
    [] options.testNamePrefix \notin {"undefined", ""}
         /\ TypeOf(options.testNamePrefix) # "string" ->
         "testNamePrefix must be a string"
    [] options.includeComments # "undefined"
         /\ TypeOf(options.includeComments) # "boolean" ->
         "includeComments must be a boolean"
    [] OTHER -> "ok"

\* playwrightGenerator.createSession(options) (lines 53-63) called with
\* any options object: the options are merged and stored as they come
CreateSessionCall(options) ==
  /\ ops < MaxOps
  /\ ops' = ops + 1
  /\ SessionIds \ issuedIds # {}
  /\ sessions' = sessions @@ (FreshId :> CreateSession(FreshId, options))
  /\ issuedIds' = issuedIds \cup {FreshId}
  /\ issued' = issued @@ (FreshId :> <<>>)
  /\ appenders' = appenders @@ (FreshId :> {})
  /\ lastResult' = Result("createSession", FreshId, FALSE, "session", "none")
  /\ UNCHANGED <<now, testFiles, snapshots, ctxSession, task>>
  /\ UNCHANGED <<browserVars, genVars, persistVars>>

\* recordActionTool.execute (lines 759-788); sessionArg is args.sessionId
RecordAction(c, sessionArg, input) ==
  /\ ops < MaxOps
  /\ ops' = ops + 1
  /\ LET sessionId == IF sessionArg # NoSession THEN sessionArg ELSE ctxSession
     IN IF sessionId = NoSession
        THEN /\ lastResult' = Result("recordAction", sessionId, FALSE, "none",
                                     "error")
             /\ UNCHANGED <<sessions, issued, appenders>>
        ELSE /\ sessions' = AddAction(sessionId, input.toolName,
                                      input.parameters)
             /\ issued' = IF sessionId \in DOMAIN sessions
                          THEN [issued EXCEPT ![sessionId] = Append(@, input)]
                          ELSE issued
             /\ appenders' = IF sessionId \in DOMAIN sessions
                             THEN [appenders EXCEPT ![sessionId] = @ \cup {c}]
                             ELSE appenders
             /\ lastResult' =
                  Result("addAction", sessionId, sessionId \in DOMAIN sessions,
                         AddActionValue(sessionId),
                         IF AddActionValue(sessionId) = "null"
                         THEN "error" ELSE "result")
  /\ UNCHANGED <<issuedIds, now, testFiles, snapshots, ctxSession, task>>
  /\ UNCHANGED <<browserVars, genVars, persistVars>>

\* the count of the endSession calls that found their session, one more for id
Closed(id) == [closes EXCEPT ![id] = @ + 1]

\* mutant: endSession leaves an endTime that is already set as it is
EndSessionKeepsFirst(id) ==
  /\ ops < MaxOps
  /\ ops' = ops + 1
  /\ IF id \notin DOMAIN sessions
     THEN /\ lastResult' = Result("endSession", id, FALSE, "null", "none")
          /\ UNCHANGED <<sessions, closes>>
     ELSE /\ sessions' = IF sessions[id].endTime = NoTime
                         THEN [sessions EXCEPT ![id].endTime = now]
                         ELSE sessions
          /\ closes' = Closed(id)
          /\ lastResult' = Result("endSession", id, TRUE, "session", "none")
  /\ UNCHANGED <<issuedIds, now, testFiles, snapshots, ctxSession, task, issued,
                 appenders>>
  /\ UNCHANGED <<browserVars, genVars, saved, removedIds>>

\* mutant: endSession drops the session it has ended from the registry
EndSessionDeletes(id) ==
  /\ ops < MaxOps
  /\ ops' = ops + 1
  /\ IF id \notin DOMAIN sessions
     THEN /\ lastResult' = Result("endSession", id, FALSE, "null", "none")
          /\ UNCHANGED <<sessions, closes>>
     ELSE /\ sessions' = [i \in DOMAIN sessions \ {id} |-> sessions[i]]
          /\ closes' = Closed(id)
          /\ lastResult' = Result("endSession", id, TRUE, "session", "none")
  /\ UNCHANGED <<issuedIds, now, testFiles, snapshots, ctxSession, task, issued,
                 appenders>>
  /\ UNCHANGED <<browserVars, genVars, saved, removedIds>>

\* endSession (lines 94-103)
EndSession(id) ==
  /\ ops < MaxOps
  /\ ops' = ops + 1
  /\ IF id \notin DOMAIN sessions
     THEN /\ lastResult' = Result("endSession", id, FALSE, "null", "none")
          /\ UNCHANGED <<sessions, closes>>
     ELSE /\ sessions' = [sessions EXCEPT ![id].endTime = now]
          /\ closes' = Closed(id)
          /\ lastResult' = Result("endSession", id, TRUE, "session", "none")
  /\ UNCHANGED <<issuedIds, now, testFiles, snapshots, ctxSession, task, issued,
                 appenders>>
  /\ UNCHANGED <<browserVars, genVars, saved, removedIds>>

\* getSession (lines 108-110)
GetSession(id) ==
  /\ ops < MaxOps
  /\ ops' = ops + 1
  /\ lastResult' = IF id \in DOMAIN sessions
                   THEN Result("getSession", id, TRUE, "session", "none")
                   ELSE Result("getSession", id, FALSE, "undefined", "none")
  /\ UNCHANGED <<sessions, issuedIds, now, testFiles, snapshots, ctxSession,
                 task, issued, appenders>>
  /\ UNCHANGED <<browserVars, genVars, persistVars>>

\* listSessions (lines 115-117): the sessions of the registry
ListSessions == {sessions[id] : id \in DOMAIN sessions}

\* a call of listSessions
ListSessionsCall ==
  /\ ops < MaxOps
  /\ ops' = ops + 1
  /\ lastResult' = Result("listSessions", NoSession, TRUE, "array", "none")
  /\ UNCHANGED <<sessions, issuedIds, now, testFiles, snapshots, ctxSession,
                 task, issued, appenders>>
  /\ UNCHANGED <<browserVars, genVars, persistVars>>

\* listSavedSessions (lines 222-246): the ids of the snapshot files, or the
\* empty list when fs.mkdir or fs.readdir fails
ListSavedSessionsCall ==
  /\ ops < MaxOps
  /\ ops' = ops + 1
  /\ \E value \in {"ids", "empty"} :
       lastResult' = Result("listSavedSessions", NoSession, TRUE, value, "none")
  /\ UNCHANGED <<sessions, issuedIds, now, testFiles, snapshots, ctxSession,
                 task, issued, appenders>>
  /\ UNCHANGED <<browserVars, genVars, persistVars>>

\* a call in flight that holds the session object of id keeps that object
\* when the registry drops or replaces it: from then on the object is as it
\* was at that moment
Detach(ids) ==
  [s \in Slots |->
     IF /\ task[s] # NoTask
        /\ \/ task[s].kind = "save" /\ task[s].stage = "mkdir"
           \/ task[s].kind = "tool" /\ task[s].stage = "saveMkdir"
        /\ ~task[s].detached
        /\ task[s].id \in ids \cap DOMAIN sessions
     THEN [task[s] EXCEPT !.session = sessions[task[s].id],
                          !.detached = TRUE]
     ELSE task[s]]

\* removeSession (lines 122-124)
RemoveSession(id) ==
  /\ ops < MaxOps
  /\ ops' = ops + 1
  /\ sessions' = [i \in DOMAIN sessions \ {id} |-> sessions[i]]
  /\ task' = Detach({id})
  /\ lastResult' = Result("removeSession", id, id \in DOMAIN sessions,
                          IF id \in DOMAIN sessions THEN "true" ELSE "false",
                          "none")
  /\ removedIds' = removedIds \cup ({id} \cap DOMAIN sessions)
  /\ UNCHANGED <<issuedIds, now, testFiles, snapshots, ctxSession, issued,
                 appenders, saved, closes>>
  /\ UNCHANGED <<browserVars, genVars>>

\* generateTest (lines 129-146), up to the await of fs.mkdir: the test code
\* and the file path are computed before the first await
GenerateTestCall(id) ==
  /\ ops < MaxOps
  /\ ops' = ops + 1
  /\ \E s \in Slots : task[s] = NoTask
  /\ IF id \notin DOMAIN sessions
     THEN /\ lastResult' = Result("generateTest", id, FALSE, "raised", "none")
          /\ UNCHANGED task
     ELSE /\ task' = [task EXCEPT ![FreeSlot] =
                        [kind |-> "generate", stage |-> "mkdir", id |-> id,
                         session |-> sessions[id], detached |-> FALSE,
                         code |-> GenerateTestCode(CreateTestCase(sessions[id]))]]
          /\ UNCHANGED lastResult
  /\ UNCHANGED <<sessions, issuedIds, now, testFiles, snapshots, ctxSession,
                 issued, appenders>>
  /\ UNCHANGED <<browserVars, genVars, persistVars>>

\* saveSessionToDisk (lines 161-177), up to the await of fs.mkdir
SaveSessionCall(id) ==
  /\ ops < MaxOps
  /\ ops' = ops + 1
  /\ \E s \in Slots : task[s] = NoTask
  /\ IF id \notin DOMAIN sessions
     THEN /\ lastResult' = Result("saveSessionToDisk", id, FALSE, "raised",
                                  "none")
          /\ UNCHANGED task
     ELSE /\ task' = [task EXCEPT ![FreeSlot] =
                        [kind |-> "save", stage |-> "mkdir", id |-> id,
                         session |-> sessions[id], detached |-> FALSE,
                         code |-> <<>>]]
          /\ UNCHANGED lastResult
  /\ UNCHANGED <<sessions, issuedIds, now, testFiles, snapshots, ctxSession,
                 issued, appenders>>
  /\ UNCHANGED <<browserVars, genVars, persistVars>>

\* the session object a saveSessionToDisk call holds, as it is now
HeldSession(s) ==
  IF ~task[s].detached /\ task[s].id \in DOMAIN sessions
  THEN sessions[task[s].id] ELSE task[s].session

\* fs.mkdir completes (lines 146, 177); the call goes on to fs.writeFile,
\* saveSessionToDisk serializing the session as it is at that moment
MkdirDone(s) ==
  /\ UNCHANGED ops
  /\ task[s] # NoTask
  /\ task[s].stage = "mkdir"
  /\ \/ /\ task' = [task EXCEPT ![s] =
                      [@ EXCEPT !.stage = "write",
                                !.session = HeldSession(s)]]
        /\ UNCHANGED lastResult
     \/ /\ task' = [task EXCEPT ![s] = NoTask]
        /\ lastResult' = Result(IF task[s].kind = "save"
                                THEN "saveSessionToDisk" ELSE "generateTest",
                                task[s].id, TRUE, "raised", "none")
  /\ UNCHANGED <<sessions, issuedIds, now, testFiles, snapshots, ctxSession,
                 issued, appenders>>
  /\ UNCHANGED <<browserVars, genVars, persistVars>>

\* fs.writeFile completes (lines 149-155, 180-182) and the method returns
WriteFileDone(s) ==
  /\ UNCHANGED ops
  /\ task[s] # NoTask
  /\ task[s].stage = "write"
  /\ task' = [task EXCEPT ![s] = NoTask]
  /\ \/ /\ task[s].kind = "generate"
        /\ testFiles' = [i \in DOMAIN testFiles \cup {task[s].id} |->
                           IF i = task[s].id THEN task[s].code
                           ELSE testFiles[i]]
        /\ lastResult' = Result("generateTest", task[s].id, TRUE, "result",
                                "none")
        /\ UNCHANGED <<snapshots, saved>>
     \/ /\ task[s].kind = "save"
        /\ snapshots' = [i \in DOMAIN snapshots \cup {task[s].id} |->
                           IF i = task[s].id THEN JsonStringify(task[s].session)
                           ELSE snapshots[i]]
        /\ saved' = [i \in DOMAIN saved \cup {task[s].id} |->
                       IF i = task[s].id THEN task[s].session ELSE saved[i]]
        /\ lastResult' = Result("saveSessionToDisk", task[s].id, TRUE, "path",
                                "none")
        /\ UNCHANGED testFiles
     \/ /\ lastResult' = Result(IF task[s].kind = "save"
                                THEN "saveSessionToDisk" ELSE "generateTest",
                                task[s].id, TRUE, "raised", "none")
        /\ UNCHANGED <<testFiles, snapshots, saved>>
  /\ UNCHANGED <<sessions, issuedIds, now, ctxSession, issued, appenders,
                 removedIds, closes>>
  /\ UNCHANGED <<browserVars, genVars>>

\* loadSessionFromDisk (lines 188-200), up to the await of fs.readFile
LoadSessionCall(id) ==
  /\ ops < MaxOps
  /\ ops' = ops + 1
  /\ \E s \in Slots : task[s] = NoTask
  /\ task' = [task EXCEPT ![FreeSlot] =
                [kind |-> "load", stage |-> "read", id |-> id]]
  /\ UNCHANGED <<sessions, issuedIds, now, testFiles, snapshots, ctxSession,
                 lastResult, issued, appenders>>
  /\ UNCHANGED <<browserVars, genVars, persistVars>>

\* importSession (lines 251-253), up to the await of fs.readFile; the file
\* path is that of the snapshot of id
ImportSessionCall(id) ==
  /\ ops < MaxOps
  /\ ops' = ops + 1
  /\ \E s \in Slots : task[s] = NoTask
  /\ task' = [task EXCEPT ![FreeSlot] =
                [kind |-> "import", stage |-> "read", id |-> id]]
  /\ UNCHANGED <<sessions, issuedIds, now, testFiles, snapshots, ctxSession,
                 lastResult, issued, appenders>>
  /\ UNCHANGED <<browserVars, genVars, persistVars>>

\* the name of the operation a call in flight belongs to
OpName(s) ==
  CASE task[s].kind = "load" -> "loadSessionFromDisk"
    [] task[s].kind = "import" -> "importSession"
    [] task[s].kind = "save" -> "saveSessionToDisk"
    [] OTHER -> "generateTest"

\* mutant: the parsed session is not stored
RegisterNothing(key, session) == sessions

\* activeSessions.set(session.id, session) (lines 206, 266)
Register(key, session) ==
  [i \in DOMAIN sessions \cup {key} |->
     IF i = key THEN session ELSE sessions[i]]

\* a file whose text is not JSON
NotJson == [garbage |-> "{"]

\* mutant: the parsed record is registered with the id it came with
WithIdAsRead(parsed, kind) == parsed

\* lines 257-262: importSession gives a record without id the id uuidv4()
\* returns; loadSessionFromDisk takes the record as it is
WithId(parsed, kind) ==
  IF kind = "import" /\ parsed.id = NoSession
  THEN [parsed EXCEPT !.id = FreshId]
  ELSE parsed

\* the errors fs.readFile and JSON.parse can end the call s with: the read
\* fails on any file, the parse on a text that is not JSON
FailureCauses(s) ==
  {"read"} \cup (IF /\ task[s].id \in DOMAIN snapshots
                    /\ snapshots[task[s].id] = NotJson
                 THEN {"parse"} ELSE {})

\* the message of the Error thrown at lines 209-216 and 268-273: the
\* message of a failed fs.readFile holds the path of the file, the message
\* of a SyntaxError of JSON.parse does not
ErrorMessage(kind, key, cause) ==
  [prefix |-> IF kind = "load" THEN "Failed to load session "
              ELSE "Failed to import session: ",
   id |-> IF kind = "load" THEN key ELSE NoSession,
   cause |-> IF cause = "read" THEN "ENOENT: no such file or directory, open "
             ELSE "Unexpected token in JSON",
   path |-> IF cause = "read" THEN key ELSE NoSession]

\* fs.readFile completes (lines 202-208, 253-267): the text is parsed and
\* the session is stored under its own id, importSession giving it a fresh
\* id when it has none; a failed read or parse is raised again (209-216,
\* 268-273)
ReadFileDone(s) ==
  /\ UNCHANGED ops
  /\ task[s] # NoTask
  /\ task[s].stage = "read"
  /\ \/ /\ task[s].id \in DOMAIN snapshots
        /\ snapshots[task[s].id] # NotJson
        /\ LET parsed == JsonParse(snapshots[task[s].id])
               fresh == task[s].kind = "import" /\ parsed.id = NoSession
               session == WithId(parsed, task[s].kind)
           IN /\ fresh => SessionIds \ issuedIds # {}
              /\ sessions' = Register(session.id, session)
              /\ task' = [Detach({session.id}) EXCEPT ![s] = NoTask]
              /\ issuedIds' = issuedIds \cup {session.id}
              /\ issued' = IF session.id \in DOMAIN issued THEN issued
                           ELSE issued @@ (session.id :> <<>>)
              /\ appenders' = IF session.id \in DOMAIN appenders THEN appenders
                              ELSE appenders @@ (session.id :> {})
        /\ lastResult' = Result(OpName(s), task[s].id, TRUE, "session", "none")
     \/ /\ \E cause \in FailureCauses(s) :
             lastResult' =
               [Result(OpName(s), task[s].id, task[s].id \in DOMAIN snapshots,
                       "raised", "none")
                  EXCEPT !.message = ErrorMessage(task[s].kind, task[s].id,
                                                  cause)]
        /\ task' = [task EXCEPT ![s] = NoTask]
        /\ UNCHANGED <<sessions, issuedIds, issued, appenders>>
  /\ UNCHANGED <<now, testFiles, snapshots, ctxSession>>
  /\ UNCHANGED <<browserVars, genVars, persistVars>>

\* ------------------------------- generateTestTool and endCodegenSessionTool

\* the call of a tool that has got its session (lines 651, 710, 734): the
\* generateTest or the saveSessionToDisk it awaits first, inside its try
\* block (guarded) or outside
ToolTask(tool, guarded, stage, id, session) ==
  [kind |-> "tool", tool |-> tool, guarded |-> guarded, stage |-> stage,
   id |-> id, session |-> session, detached |-> FALSE,
   translated |-> session.actions,
   code |-> GenerateTestCode(CreateTestCase(session))]

\* the error payload both tools return when there is no session id or no
\* session of that id (lines 630-643, 695-708)
ToolRefuses(tool, sessionId) ==
  /\ lastResult' = Result(tool, sessionId, FALSE, "payload", "error")
  /\ UNCHANGED <<sessions, task, closes>>

\* generateTestTool.execute (lines 626-651), up to the await of fs.mkdir
\* in generateTest; sessionArg is args.sessionId
GenerateTestToolCall(c, sessionArg) ==
  /\ ops < MaxOps
  /\ ops' = ops + 1
  /\ \E s \in Slots : task[s] = NoTask
  /\ LET sessionId == IF sessionArg # NoSession THEN sessionArg ELSE ctxSession
     IN IF sessionId = NoSession \/ sessionId \notin DOMAIN sessions
        THEN ToolRefuses("generateTestTool", sessionId)
        ELSE /\ sessions' = IF sessions[sessionId].endTime = NoTime
                            THEN [sessions EXCEPT ![sessionId].endTime = now]
                            ELSE sessions
             /\ closes' = IF sessions[sessionId].endTime = NoTime
                          THEN Closed(sessionId) ELSE closes
             /\ task' = [task EXCEPT ![FreeSlot] =
                           ToolTask("generateTestTool", TRUE, "genMkdir",
                                    sessionId, sessions'[sessionId])]
             /\ UNCHANGED lastResult
  /\ UNCHANGED <<issuedIds, now, testFiles, snapshots, ctxSession, issued,
                 appenders>>
  /\ UNCHANGED <<browserVars, genVars, saved, removedIds>>

\* endCodegenSessionTool.execute (lines 691-734), up to the first await:
\* fs.mkdir in generateTest when generateTest is asked for, else fs.mkdir
\* in saveSessionToDisk, which is awaited outside any try block
EndCodegenSessionCall(c, sessionArg, generateTest) ==
  /\ ops < MaxOps
  /\ ops' = ops + 1
  /\ \E s \in Slots : task[s] = NoTask
  /\ LET sessionId == IF sessionArg # NoSession THEN sessionArg ELSE ctxSession
     IN IF sessionId = NoSession \/ sessionId \notin DOMAIN sessions
        THEN ToolRefuses("endCodegenSessionTool", sessionId)
        ELSE /\ sessions' = [sessions EXCEPT ![sessionId].endTime = now]
             /\ closes' = Closed(sessionId)
             /\ task' = [task EXCEPT ![FreeSlot] =
                           ToolTask("endCodegenSessionTool", generateTest,
                                    IF generateTest THEN "genMkdir"
                                    ELSE "saveMkdir",
                                    sessionId, sessions'[sessionId])]
             /\ UNCHANGED lastResult
  /\ UNCHANGED <<issuedIds, now, testFiles, snapshots, ctxSession, issued,
                 appenders>>
  /\ UNCHANGED <<browserVars, genVars, saved, removedIds>>

\* an awaited file operation of a tool call fails: inside the try block the
\* error becomes an error payload (lines 664-670, 722-728), outside it the
\* call of the tool is rejected
ToolFails(s) ==
  /\ task' = [task EXCEPT ![s] = NoTask]
  /\ lastResult' = IF task[s].guarded
                   THEN Result(task[s].tool, task[s].id, TRUE, "payload",
                               "error")
                   ELSE Result(task[s].tool, task[s].id, TRUE, "raised",
                               "none")

\* fs.mkdir of a tool call completes (lines 146, 177)
ToolMkdirDone(s) ==
  /\ UNCHANGED ops
  /\ task[s] # NoTask
  /\ task[s].kind = "tool"
  /\ task[s].stage \in {"genMkdir", "saveMkdir"}
  /\ \/ /\ task' = [task EXCEPT ![s] =
                      IF task[s].stage = "genMkdir"
                      THEN [@ EXCEPT !.stage = "genWrite"]
                      ELSE [@ EXCEPT !.stage = "saveWrite",
                                     !.session = HeldSession(s)]]
        /\ UNCHANGED lastResult
     \/ ToolFails(s)
  /\ UNCHANGED <<sessions, issuedIds, now, testFiles, snapshots, ctxSession,
                 issued, appenders>>
  /\ UNCHANGED <<browserVars, genVars, persistVars>>

\* fs.writeFile of generateTest completes in a tool call (lines 149-155):
\* the test file is there and the tool calls saveSessionToDisk (lines 654,
\* 715), which throws if the session has left the registry (167-169)
ToolTestWritten(s) ==
  /\ UNCHANGED ops
  /\ task[s] # NoTask
  /\ task[s].kind = "tool"
  /\ task[s].stage = "genWrite"
  /\ \/ /\ testFiles' = [i \in DOMAIN testFiles \cup {task[s].id} |->
                           IF i = task[s].id THEN task[s].code
                           ELSE testFiles[i]]
        /\ IF task[s].id \in DOMAIN sessions
           THEN /\ task' = [task EXCEPT ![s] =
                              [@ EXCEPT !.stage = "saveMkdir",
                                        !.session = sessions[task[s].id],
                                        !.detached = FALSE]]
                /\ UNCHANGED lastResult
           ELSE ToolFails(s)
     \/ /\ ToolFails(s)
        /\ UNCHANGED testFiles
  /\ UNCHANGED <<sessions, issuedIds, now, snapshots, ctxSession, issued,
                 appenders>>
  /\ UNCHANGED <<browserVars, genVars, persistVars>>

\* fs.writeFile of saveSessionToDisk completes in a tool call (lines
\* 180-182) and the tool returns its result (656-663, 717-721, 736-744),
\* endCodegenSessionTool without generateTest deleting
\* context.codegenSessionId first
ToolSnapshotWritten(s) ==
  /\ UNCHANGED ops
  /\ task[s] # NoTask
  /\ task[s].kind = "tool"
  /\ task[s].stage = "saveWrite"
  /\ \/ /\ snapshots' = [i \in DOMAIN snapshots \cup {task[s].id} |->
                           IF i = task[s].id THEN JsonStringify(task[s].session)
                           ELSE snapshots[i]]
        /\ saved' = [i \in DOMAIN saved \cup {task[s].id} |->
                       IF i = task[s].id THEN task[s].session ELSE saved[i]]
        /\ ctxSession' = IF task[s].guarded THEN ctxSession ELSE NoSession
        /\ task' = [task EXCEPT ![s] = NoTask]
        /\ lastResult' = Result(task[s].tool, task[s].id, TRUE, "payload",
                                "result")
     \/ /\ ToolFails(s)
        /\ UNCHANGED <<snapshots, saved, ctxSession>>
  /\ UNCHANGED <<sessions, issuedIds, now, testFiles, issued, appenders,
                 removedIds, closes>>
  /\ UNCHANGED <<browserVars, genVars>>

\* nothing generated yet
NoResult == [testCode |-> "none"]

\* generateTest applied to a session that was handed to the generator
Generate(i) ==
  /\ i \in DOMAIN subject
  /\ generated[i] = NoResult
  /\ generated' = [generated EXCEPT ![i] = GenerateTestResult(subject[i])]
  /\ UNCHANGED <<subject, directory, listing, browserVars, storeVars>>

\* ---------------------------------------------------------- listSavedSessions

\* a file name or an id as the pieces of its text; the pieces session- and
\* .json are the texts listSavedSessions looks for
IdPieces == {"a", "b", ".json"}

\* the ids a snapshot can be saved under: the id of a registered session,
\* which createSession drew or which importSession read from a file
IdTexts == UNION {[1..len -> IdPieces] : len \in 1..MaxPieces}

\* the file name of line 179: session-<id>.json
SessionFileName(id) == <<"session-">> \o id \o <<".json">>

\* file.startsWith("session-") && file.endsWith(".json") (line 235)
IsSessionFile(file) ==
  /\ Len(file) >= 1
  /\ file[1] = "session-"
  /\ file[Len(file)] = ".json"

\* text.replace(piece, ""): the first occurrence of the piece is taken out
ReplaceFirst(text, piece) ==
  IF \E k \in DOMAIN text : text[k] = piece
  THEN LET first == CHOOSE k \in DOMAIN text :
                      /\ text[k] = piece
                      /\ \A j \in 1..(k - 1) : text[j] # piece
       IN SubSeq(text, 1, first - 1) \o SubSeq(text, first + 1, Len(text))
  ELSE text

\* file.replace("session-", "").replace(".json", "") (line 236)
ListedId(file) == ReplaceFirst(ReplaceFirst(file, "session-"), ".json")

\* no directory has been handed to listSavedSessions
NoDirectory == [state |-> "none", ids |-> {}, files |-> {}]

\* listSavedSessions has not run
NoListing == [done |-> FALSE, raised |-> FALSE, ids |-> <<>>]

\* the directories drawn: one that is missing, one that cannot be read, and
\* the ones in which saveSessionToDisk has saved the snapshots of some ids
Directories ==
  {[state |-> state, ids |-> ids, files |-> {SessionFileName(id) : id \in ids}] :
     state \in {"present", "unreadable"},
     ids \in UNION {{{f[k] : k \in 1..n} : f \in [1..n -> IdTexts]} :
                     n \in 0..MaxFiles}}
  \cup {[state |-> "missing", ids |-> {}, files |-> {}]}

\* listSavedSessions (lines 222-246): fs.mkdir creates a missing directory,
\* fs.readdir gives its file names, and each session file gives one entry of
\* the array; an error of mkdir or readdir is logged and [] is returned.
\* The array is the function from file name to entry.
ListSavedSessions ==
  /\ directory # NoDirectory
  /\ ~listing.done
  /\ listing' =
       IF directory.state = "unreadable"
       THEN [done |-> TRUE, raised |-> FALSE, ids |-> <<>>]
       ELSE [done |-> TRUE, raised |-> FALSE,
             ids |-> [file \in {f \in directory.files : IsSessionFile(f)} |->
                        ListedId(file)]]
  /\ directory' = IF directory.state = "missing"
                  THEN [directory EXCEPT !.state = "present"]
                  ELSE directory
  /\ UNCHANGED <<subject, generated, browserVars, storeVars>>

\* time passes between two calls of Date.now()
Tick ==
  /\ now <= MaxTime
  /\ now' = now + 1
  /\ UNCHANGED <<sessions, issuedIds, testFiles, snapshots, ctxSession, task,
                 lastResult, ops, issued, appenders>>
  /\ UNCHANGED <<browserVars, genVars, persistVars>>

\* ------------------------------------------------------------ specifications

InitCallers ==
  /\ isInitializing = FALSE
  /\ pc = [c \in Callers |-> "idle"]
  /\ op = [c \in Callers |-> "none"]
  /\ lb = [c \in Callers |-> NoHandle]
  /\ ret = [c \in Callers |-> <<NoHandle, NoHandle>>]
  /\ acquired = [c \in Callers |-> "none"]
  /\ waited = [c \in Callers |-> FALSE]
  /\ launches = 0
  /\ failures = 0
  /\ calls = 0
  /\ lastEvent = <<"init", NoHandle>>
  /\ failedLaunches = {}

\* a fresh ToolContext: no browser, no page
InitContextEmpty ==
  /\ startKind = "none"
  /\ otherContext = NoContext
  /\ ctxBrowser = NoHandle /\ ctxPage = NoHandle
  /\ liveBrowsers = {} /\ openPages = {}
  /\ pageOwner = <<>>
  /\ nextBrowser = 1 /\ nextPage = 1

\* a context that earlier calls have left with browser 1 and possibly page 1
InitContextUsed ==
  /\ startKind \in {"disconnected", "pageMissing", "pageClosed", "ready"}
  /\ otherContext = NoContext
  /\ ctxBrowser = 1
  /\ ctxPage = IF startKind = "pageMissing" THEN NoHandle ELSE 1
  /\ liveBrowsers = IF startKind = "disconnected" THEN {} ELSE {1}
  /\ openPages = IF startKind = "ready" THEN {1} ELSE {}
  /\ pageOwner = IF startKind = "pageMissing" THEN <<>> ELSE <<1>>
  /\ nextBrowser = 2
  /\ nextPage = IF startKind = "pageMissing" THEN 1 ELSE 2

\* a fresh ToolContext next to a second one that earlier calls have left
\* READY with browser 1 and page 1
InitContexts ==
  /\ startKind = "none"
  /\ otherContext = [browser |-> 1, page |-> 1]
  /\ ctxBrowser = NoHandle /\ ctxPage = NoHandle
  /\ liveBrowsers = {1} /\ openPages = {1}
  /\ pageOwner = <<1>>
  /\ nextBrowser = 2 /\ nextPage = 2

\* the registry of the freshly loaded generator module: no session, no file
InitStore ==
  /\ sessions = <<>>
  /\ issuedIds = {}
  /\ now = 1
  /\ testFiles = <<>>
  /\ snapshots = <<>>
  /\ ctxSession = NoSession
  /\ task = [s \in Slots |-> NoTask]
  /\ lastResult = Result("none", NoSession, FALSE, "none", "none")
  /\ ops = 0
  /\ issued = <<>>
  /\ appenders = <<>>
  /\ saved = <<>>
  /\ removedIds = {}
  /\ closes = [id \in SessionIds |-> 0]

\* no session has been handed to the generator directly
InitGen ==
  /\ subject = <<>>
  /\ generated = <<>>
  /\ directory = NoDirectory
  /\ listing = NoListing

\* the session createSession and addAction make of an id, a start time,
\* the options argument and the (toolName, parameters) pairs recorded, all
\* of them at the latest time of the clock
SessionOf(id, startTime, options, inputs) ==
  [id |-> id,
   actions |-> [i \in DOMAIN inputs |->
                  [toolName |-> inputs[i].toolName,
                   parameters |-> inputs[i].parameters,
                   timestamp |-> MaxTime + 1, result |-> "undefined"]],
   startTime |-> startTime, endTime |-> NoTime,
   options |-> MergeOptions(DefaultOptions, options)]

\* a registry that earlier calls have left with session 1, started by
\* startCodegenSessionTool at time 1, possibly saved right then, possibly
\* with an action recorded since and possibly ended
InitStoreUsed ==
  /\ \E options \in OptionArgs, wasSaved \in BOOLEAN, actions \in {<<>>, <<[toolName |-> "navigate",
                    parameters |-> [url |-> "https://example.com"]]>>},
        endTime \in {NoTime, 1} :
       /\ sessions = (1 :> [id |-> 1,
                            actions |-> [i \in DOMAIN actions |->
                                           [toolName |-> actions[i].toolName,
                                            parameters |-> actions[i].parameters,
                                            timestamp |-> 1,
                                            result |-> "undefined"]],
                            startTime |-> 1, endTime |-> endTime,
                            options |-> MergeOptions(DefaultOptions, options)])
       /\ issued = (1 :> actions)
       /\ appenders = (1 :> IF actions = <<>> THEN {} ELSE {1})
       /\ saved = IF wasSaved THEN (1 :> SessionOf(1, 1, options, <<>>))
                  ELSE <<>>
       /\ snapshots = IF wasSaved
                      THEN (1 :> JsonStringify(SessionOf(1, 1, options, <<>>)))
                      ELSE <<>>
       /\ closes = [id \in SessionIds |->
                      IF id = 1 /\ endTime # NoTime THEN 1 ELSE 0]
  /\ issuedIds = {1}
  /\ now = 1
  /\ testFiles = <<>>
  /\ ctxSession = 1
  /\ task = [s \in Slots |-> NoTask]
  /\ lastResult = Result("none", NoSession, FALSE, "none", "none")
  /\ ops = 0
  /\ removedIds = {}

Init == InitCallers /\ InitContextEmpty /\ InitStore /\ InitGen

Next ==
  \E c \in Callers :
    \/ ActionToolCall(c)
    \/ SetUserAgentCall(c)
    \/ CloseBrowserCall(c)
    \/ WaitWake(c)
    \/ LaunchDone(c)
    \/ NewContextDone(c)
    \/ NewPageDone(c)
    \/ NewPageExistingDone(c)
    \/ OperationDone(c)
    \/ SetUserAgentNewContextDone(c)
    \/ SetUserAgentNewPageDone(c)
    \/ CloseBrowserDone(c)

\* every browser tool on one context, from a fresh context
Spec == Init /\ [][Next]_vars

InitAcquire ==
  InitCallers /\ (InitContextEmpty \/ InitContextUsed) /\ InitStore /\ InitGen

NextAcquire ==
  \E c \in Callers :
    \/ EnsureBrowserCall(c)
    \/ WaitWake(c)
    \/ LaunchDone(c)
    \/ NewContextDone(c)
    \/ NewPageDone(c)
    \/ NewPageExistingDone(c)

\* concurrent ensureBrowser calls alone, from every state a context can be in
SpecAcquire == InitAcquire /\ [][NextAcquire]_vars

InitTwoContexts == InitCallers /\ InitContexts /\ InitStore /\ InitGen

NextTwoContexts ==
  \E c \in Callers :
    \/ EnsureBrowserCall(c)
    \/ WaitWake(c)
    \/ LaunchDone(c)
    \/ NewContextDone(c)
    \/ NewPageDone(c)
    \/ NewPageExistingDone(c)
    \/ OtherEnsureBrowserCall(c)
    \/ OtherWaitWake(c)

\* ensureBrowser calls on two contexts that share the module: a fresh one and
\* one that is READY
SpecTwoContexts == InitTwoContexts /\ [][NextTwoContexts]_vars

\* The scheduling of the steps a call awaits: the engine completes or fails
\* every operation it was asked for, and the 100 ms timer of line 35 keeps
\* firing, so that a waiter leaves the loop once the flag stays down.
FairAcquire ==
  \A c \in Callers :
    /\ WF_vars(WaitWake(c))
    /\ WF_vars(LaunchDone(c))
    /\ WF_vars(NewContextDone(c))
    /\ WF_vars(NewPageDone(c))
    /\ WF_vars(NewPageExistingDone(c))

\* SpecAcquire in which every awaited step eventually happens
SpecAcquireFair == InitAcquire /\ [][NextAcquire]_vars /\ FairAcquire

NextStore ==
  \/ \E c \in Callers : StartCodegenSession(c)
  \/ \E c \in Callers, sessionArg \in {NoSession} \cup SessionIds,
        input \in ActionInputs : RecordAction(c, sessionArg, input)
  \/ \E id \in SessionIds : EndSession(id)
  \/ \E id \in SessionIds : GetSession(id)
  \/ \E id \in SessionIds : RemoveSession(id)
  \/ \E id \in SessionIds : GenerateTestCall(id)
  \/ \E id \in SessionIds : SaveSessionCall(id)
  \/ \E s \in Slots : MkdirDone(s)
  \/ \E s \in Slots : WriteFileDone(s)
  \/ Tick

\* the generator and the codegen tools, from an empty registry
SpecStore == Init /\ [][NextStore]_vars

\* every sequence of at most n elements of a set
SeqsUpTo(set, n) == UNION {[1..len -> set] : len \in 0..n}

\* the parameter values recorded in the model: a value and the empty string
ParamValues == {"v", ""}

\* every action of a tool name: each subset of its parameters, each value
ActionsOf(toolName) ==
  {[toolName |-> toolName, parameters |-> p] :
     p \in UNION {[keys -> ParamValues] : keys \in SUBSET SlotsOf(toolName)}}

\* the sessions drawn as input of the generator: every sequence of at most
\* MaxLen recorded actions, and every single action of every tool name
Subjects(id) ==
  {SessionOf(id, startTime, options, inputs) :
     startTime \in 1..(MaxTime + 1), options \in OptionArgs,
     inputs \in SeqsUpTo(ActionInputs, MaxLen)}
  \cup {SessionOf(id, 1, options, <<input>>) :
          options \in OptionArgs,
          input \in UNION {ActionsOf(toolName) :
                             toolName \in TranslationTable \cup {"frobnicate"}}}

\* one session is handed to the generator
InitGenerate ==
  /\ InitCallers /\ InitContextEmpty /\ InitStore
  /\ \E session \in Subjects(1) : subject = <<session>>
  /\ generated = <<NoResult>>
  /\ directory = NoDirectory
  /\ listing = NoListing

NextGenerate == \E i \in DOMAIN subject : Generate(i)

\* generation as a function of the session it is given
SpecGenerate == InitGenerate /\ [][NextGenerate]_vars

\* the name properties of the tools in the tools array of browserAgent
\* (browserAgent.ts lines 80-119), each read in the createTool call of the
\* tool (getTextTool: interactionTool.ts line 98)
RegisteredToolNames ==
  {"navigate", "goBack", "goForward", "refreshPage", "closeBrowser",
   "click", "type", "getText", "selectOption", "check", "uncheck", "hover",
   "pressKey", "waitForElement",
   "saveToFile", "exportPdf", "extractData",
   "expectResponse", "assertResponse",
   "screenshot",
   "setUserAgent", "getUserAgent",
   "getVisibleText", "getVisibleHtml", "listInteractiveElements"}

\* the actions recorded under the name of the tool that performed them:
\* the parameters the translation reads, or a selector alone
RegisteredActions ==
  UNION {ActionsOf(toolName)
           \cup {[toolName |-> toolName, parameters |-> [selector |-> "v"]]} :
         toolName \in RegisteredToolNames}

\* a session with one action of a registered browser tool is handed to the
\* generator
InitRegistered ==
  /\ InitCallers /\ InitContextEmpty /\ InitStore
  /\ \E options \in OptionArgs, input \in RegisteredActions :
       subject = <<SessionOf(1, 1, options, <<input>>)>>
  /\ generated = <<NoResult>>
  /\ directory = NoDirectory
  /\ listing = NoListing

\* generation of the actions the tools of the browser agent are recorded as
SpecRegistered == InitRegistered /\ [][NextGenerate]_vars

\* two sessions with recorded actions are handed to the generator
InitCompare ==
  /\ InitCallers /\ InitContextEmpty /\ InitStore
  /\ \E first \in Subjects(1), second \in Subjects(2) :
       /\ Len(first.actions) = MaxLen - 1
       /\ Len(second.actions) = MaxLen - 1
       /\ subject = <<first, second>>
  /\ generated = <<NoResult, NoResult>>
  /\ directory = NoDirectory
  /\ listing = NoListing

\* generation of two sessions, compared
SpecCompare == InitCompare /\ [][NextGenerate]_vars

NextTools ==
  \/ \E c \in Callers : StartCodegenSession(c)
  \/ \E c \in Callers, input \in ActionInputs : RecordAction(c, NoSession, input)
  \/ \E c \in Callers, sessionArg \in {NoSession} \cup SessionIds :
       GenerateTestToolCall(c, sessionArg)
  \/ \E c \in Callers, sessionArg \in {NoSession} \cup SessionIds,
        generateTest \in BOOLEAN :
       EndCodegenSessionCall(c, sessionArg, generateTest)
  \/ \E s \in Slots : ToolMkdirDone(s)
  \/ \E s \in Slots : ToolTestWritten(s)
  \/ \E s \in Slots : ToolSnapshotWritten(s)
  \/ \E id \in SessionIds : RemoveSession(id)

\* the four codegen tools on one context, from an empty registry
SpecTools == Init /\ [][NextTools]_vars

NextOpen ==
  \/ \E options \in OptionArgs \cup MalformedOptionArgs :
       CreateSessionCall(options)
  \/ \E id \in SessionIds : GetSession(id)
  \/ \E id \in SessionIds : RemoveSession(id)
  \/ Tick

\* sessions opened through the generator with any options object
SpecOpen == Init /\ [][NextOpen]_vars

NextRecord ==
  \E c \in Callers :
    \/ StartCodegenSession(c)
    \/ ActionToolCall(c)
    \/ WaitWake(c)
    \/ LaunchDone(c)
    \/ NewContextDone(c)
    \/ NewPageDone(c)
    \/ NewPageExistingDone(c)
    \/ OperationDone(c)

\* browser action tools used in a context where a session is started
SpecRecord == InitAcquire /\ [][NextRecord]_vars

InitPersist == InitCallers /\ InitContextEmpty /\ InitStoreUsed /\ InitGen

NextPersist ==
  \/ \E c \in Callers, input \in ActionInputs : RecordAction(c, NoSession, input)
  \/ \E id \in issuedIds : RemoveSession(id)
  \/ \E id \in issuedIds : GenerateTestCall(id)
  \/ \E id \in issuedIds : SaveSessionCall(id)
  \/ \E id \in issuedIds : LoadSessionCall(id)
  \/ \E id \in issuedIds : ImportSessionCall(id)
  \/ \E s \in Slots : MkdirDone(s)
  \/ \E s \in Slots : WriteFileDone(s)
  \/ \E s \in Slots : ReadFileDone(s)

\* snapshots of the sessions opened so far saved, loaded and imported while
\* the session of the context is in use
SpecPersist == InitPersist /\ [][NextPersist]_vars

NextLifecycle ==
  \/ \E id \in issuedIds : EndSession(id)
  \/ \E id \in issuedIds : GetSession(id)
  \/ ListSessionsCall
  \/ ListSavedSessionsCall
  \/ \E id \in issuedIds : RemoveSession(id)
  \/ \E id \in issuedIds : GenerateTestCall(id)
  \/ \E id \in issuedIds : SaveSessionCall(id)
  \/ \E id \in issuedIds : LoadSessionCall(id)
  \/ \E id \in issuedIds : ImportSessionCall(id)
  \/ \E s \in Slots : MkdirDone(s)
  \/ \E s \in Slots : WriteFileDone(s)
  \/ \E s \in Slots : ReadFileDone(s)

\* every operation of the generator on the sessions opened so far, from a
\* registry in use
SpecLifecycle == InitPersist /\ [][NextLifecycle]_vars

\* the caller that started the session of the context
Starter == CHOOSE c \in Callers : \A other \in Callers : c <= other

NextClosed ==
  \/ \E input \in ActionInputs : RecordAction(Starter, NoSession, input)
  \/ \E id \in issuedIds : GenerateTestCall(id)
  \/ \E s \in Slots : MkdirDone(s)
  \/ \E s \in Slots : WriteFileDone(s)
  \/ Tick

\* actions recorded and tests generated while the session of the context is
\* ended, from a registry in use
SpecClosed == InitPersist /\ [][NextClosed]_vars

\* the text of a snapshot from which the id was taken out
WithoutId(text) == [k \in DOMAIN text \ {"id"} |-> text[k]]

\* the files importSession and loadSessionFromDisk may be pointed at, next to
\* the snapshot of session 1: none, a record without id, a text that is
\* not JSON
ForeignFiles(options) ==
  { <<>>,
    (MaxSessions :> WithoutId(JsonStringify(
                      SessionOf(NoSession, 1, options,
                                <<[toolName |-> "click",
                                   parameters |-> [selector |-> "v"]]>>)))),
    (MaxSessions :> NotJson) }

\* a registry that holds session 1 with a recorded action, saved when it was
\* started, and a directory that may hold a file the generator did not write
InitStoreFiles ==
  /\ \E options \in OptionArgs : \E foreign \in ForeignFiles(options) :
       /\ sessions = (1 :> SessionOf(1, 1, options,
                                    <<[toolName |-> "navigate",
                                       parameters |->
                                         [url |-> "https://example.com"]]>>))
       /\ saved = (1 :> SessionOf(1, 1, options, <<>>))
       /\ snapshots = (1 :> JsonStringify(SessionOf(1, 1, options, <<>>)))
                        @@ foreign
  /\ issued = (1 :> <<[toolName |-> "navigate",
                       parameters |-> [url |-> "https://example.com"]]>>)
  /\ appenders = (1 :> {1})
  /\ closes = [id \in SessionIds |-> 0]
  /\ issuedIds = {1}
  /\ now = 1
  /\ testFiles = <<>>
  /\ ctxSession = 1
  /\ task = [s \in Slots |-> NoTask]
  /\ lastResult = Result("none", NoSession, FALSE, "none", "none")
  /\ ops = 0
  /\ removedIds = {}

InitImport == InitCallers /\ InitContextEmpty /\ InitStoreFiles /\ InitGen

NextImport ==
  \/ \E id \in SessionIds : ImportSessionCall(id)
  \/ \E id \in SessionIds : LoadSessionCall(id)
  \/ \E s \in Slots : ReadFileDone(s)
  \/ \E id \in SessionIds : RemoveSession(id)
  \/ \E input \in ActionInputs : RecordAction(Starter, NoSession, input)

\* snapshots and foreign files imported and loaded into a registry in use
SpecImport == InitImport /\ [][NextImport]_vars

\* a registry in use and a sessions directory handed to listSavedSessions
InitList ==
  /\ InitCallers /\ InitContextEmpty /\ InitStoreUsed
  /\ subject = <<>>
  /\ generated = <<>>
  /\ directory \in Directories
  /\ listing = NoListing

NextList == ListSavedSessions

\* listSavedSessions as a function of the directory it reads
SpecList == InitList /\ [][NextList]_vars

\* ------------------------------------------------------------------ claims

\* callers whose latest ensureBrowser call returned handles
ReturnedCallers == {c \in Callers : acquired[c] = "returned"}

\* callers between line 44 (flag set) and line 67 (flag cleared)
InLaunch == {c \in Callers : pc[c] \in {"launch", "newContext", "newPage"}}

\* C1: at most one live browser and at most one open page exist for the
\* context in every reachable state, whatever tools interleave on it.
C1_OneBrowserOnePage ==
  Cardinality(liveBrowsers) <= 1 /\ Cardinality(openPages) <= 1

\* C2: on a context that starts with no browser, when concurrent ensureBrowser
\* callers have returned (no launch failed), exactly one launch was made and
\* every caller holds the same browser and page, those of the context.
C2_SimultaneousAcquireOneLaunch ==
  (startKind = "none" /\ failures = 0 /\ Cardinality(ReturnedCallers) >= 2)
    => /\ launches = 1
       /\ \A c \in ReturnedCallers : ret[c] = <<ctxBrowser, ctxPage>>
       /\ \A a, b \in ReturnedCallers : ret[a] = ret[b]

\* two callers returned, the second one issued while the first was launching
C2_Witness ==
  /\ startKind = "none" /\ failures = 0
  /\ \E a, b \in ReturnedCallers :
       /\ a # b /\ ~waited[a] /\ waited[b]
       /\ pc[a] = "idle" /\ pc[b] = "idle"
       /\ ret[a] = ret[b] /\ ret[a][1] # NoHandle

\* C3: at most one caller is between setting and clearing the initializing
\* flag, and the flag is up exactly while one is, in every reachable state,
\* including after a failed launch has released several waiters.
C3_AtMostOneLaunchInProgress ==
  /\ Cardinality(InLaunch) <= 1
  /\ isInitializing <=> InLaunch # {}

\* after a failed launch one former waiter is launching, another still waits
C3_Witness ==
  /\ failures >= 1
  /\ \E a, b \in Callers :
       a # b /\ pc[a] = "launch" /\ waited[a] /\ pc[b] = "wait"

C5_SuccessiveAcquireIdempotent ==
  [][\A c \in Callers :
       /\ (lastEvent = <<"ensureReturned", c>> /\ EnsureBrowserCall(c))
            => /\ ret'[c] = ret[c]
               /\ acquired'[c] = "returned" /\ pc'[c] = "idle"
               /\ launches' = launches
               /\ (calls = 1 /\ startKind \in {"none", "disconnected"})
                     => launches' = 1
               /\ UNCHANGED <<ctxVars, engineVars, isInitializing>>
       /\ (Ready /\ EnsureBrowserCall(c))
            => /\ ~isInitializing
               /\ ret'[c] = <<ctxBrowser, ctxPage>>
               /\ acquired'[c] = "returned" /\ pc'[c] = "idle"
               /\ launches' = launches
               /\ UNCHANGED <<ctxVars, engineVars, isInitializing>>
    ]_vars

\* one caller alone has made two calls in a row from an empty context
C5_Witness ==
  /\ startKind = "none" /\ calls = 2 /\ launches = 1
  /\ \E c \in Callers :
       /\ lastEvent = <<"ensureReturned", c>>
       /\ ret[c] = <<ctxBrowser, ctxPage>> /\ Ready
       /\ \A d \in Callers \ {c} : acquired[d] = "none" /\ pc[d] = "idle"

\* C6: when closeBrowser has run on a context that held a browser, the
\* context holds no browser handle and no page handle.
C6_ReleaseResetsContext ==
  \A c \in Callers :
    lastEvent = <<"closeReturned", c>>
      => ctxBrowser = NoHandle /\ ctxPage = NoHandle

\* C7: the steps of the action tools that follow ensureBrowser leave
\* context.browser and context.page as they are.
C7_ToolsLeaveHandles ==
  [][(\E c \in Callers :
        \/ OperationDone(c)
        \/ SetUserAgentNewContextDone(c)
        \/ SetUserAgentNewPageDone(c))
      => UNCHANGED ctxVars]_vars

\* the operations of the generator that take the id of a session
LookupOps == {"addAction", "endSession", "getSession"}
FileOps == {"generateTest", "saveSessionToDisk"}

\* a call has just run against an id that is not in the registry
UnknownCall(opNames) ==
  /\ ops' = ops + 1
  /\ lastResult'.op \in opNames
  /\ ~lastResult'.known

\* C8: addAction, endSession and getSession called with an id that is not
\* in the registry return null / undefined, never raise, and leave the
\* registry and every session in it as they were.
C8_UnknownIdReturnsNotFound ==
  [][UnknownCall(LookupOps)
       => /\ lastResult'.value \in {"null", "undefined"}
          /\ sessions' = sessions]_vars

\* addAction has returned null for an unknown id while the registry holds
\* a session with a recorded action
C8_Witness ==
  /\ lastResult.op = "addAction"
  /\ ~lastResult.known
  /\ lastResult.value = "null"
  /\ \E id \in DOMAIN sessions : Len(sessions[id].actions) >= 1

\* C9: every operation given an unknown session id, generateTest and
\* saveSessionToDisk included, hands the missing session back as an error
\* value and never raises; it writes no file and leaves the registry as
\* it was.
C9_UnknownIdNeverRaises ==
  [][UnknownCall(LookupOps \cup FileOps)
       => /\ lastResult'.value # "raised"
          /\ sessions' = sessions
          /\ testFiles' = testFiles
          /\ snapshots' = snapshots]_vars

\* the (toolName, parameters) pairs of the actions of a session, in order
RecordedInputs(id) ==
  [i \in 1..Len(sessions[id].actions) |->
     [toolName |-> sessions[id].actions[i].toolName,
      parameters |-> sessions[id].actions[i].parameters]]

\* C10: whatever the interleaving of the recordAction calls of concurrent
\* callers on one registered session, its action list holds exactly the
\* appended actions, each once, in the order the appends were issued; no
\* append overwrites another.
C10_AppendsSerialized ==
  \A id \in DOMAIN sessions : RecordedInputs(id) = issued[id]

\* two callers have appended to the same session, which holds two actions
C10_Witness ==
  \E id \in DOMAIN sessions :
    /\ Len(sessions[id].actions) >= 2
    /\ Cardinality(appenders[id]) >= 2

\* first is a prefix of second
IsPrefix(first, second) ==
  /\ Len(first) <= Len(second)
  /\ \A i \in 1..Len(first) : first[i] = second[i]

\* C11: as long as a session stays in the registry its action list only
\* grows by append: the list of an earlier state is a prefix of the list of
\* every later state, whichever of start, record, end, generate, save,
\* load and import run in between.
C11_ActionsOnlyAppended ==
  [][\A id \in DOMAIN sessions \cap DOMAIN sessions' :
       IsPrefix(sessions[id].actions, sessions'[id].actions)]_vars

\* the actions of a list whose tool name the translation table has
Supported(actions) ==
  SelectSeq(actions, LAMBDA action : action.toolName \in TranslationTable)

\* the actions of a list whose tool name the translation table lacks
Unsupported(actions) ==
  SelectSeq(actions, LAMBDA action : action.toolName \notin TranslationTable)

\* C12: generation yields one statement for each action whose tool name is
\* in the translation table and none for any other action, in the order the
\* actions were appended; an action with an unsupported tool name stays in
\* the session and gives exactly one diagnostic per generation.
C12_TranslatedSubsetInOrder ==
  \A i \in DOMAIN subject :
    generated[i] # NoResult =>
      LET actions == subject[i].actions
          steps == generated[i].testCase.steps
      IN /\ Len(steps) = Len(Supported(actions))
         /\ \A k \in 1..Len(steps) :
              /\ steps[k] # <<>>
              /\ steps[k] = ConvertActionToStep(Supported(actions)[k])
         /\ generated[i].testCode.body = steps
         /\ Len(generated[i].warnings) = Len(Unsupported(actions))
         /\ \A k \in 1..Len(generated[i].warnings) :
              generated[i].warnings[k][2] = Unsupported(actions)[k].toolName

\* a session with a supported action, an unsupported one and another
\* supported one, in that order, has been generated
C12_Witness ==
  \E i \in DOMAIN subject :
    /\ generated[i] # NoResult
    /\ Len(subject[i].actions) = 3
    /\ subject[i].actions[1].toolName = "navigate"
    /\ subject[i].actions[2].toolName = "frobnicate"
    /\ subject[i].actions[3].toolName = "click"
    /\ Len(generated[i].testCase.steps) = 2
    /\ Len(generated[i].warnings) = 1

\* the empty string literal the generate...Step methods write for a
\* parameter the action does not have
EmptyPlaceholder == "\"\""

\* how many pieces of a statement are the given text
Occurrences(step, piece) == Cardinality({k \in DOMAIN step : step[k] = piece})

\* the parameters of an action that hold a value
PresentSlots(action) ==
  {key \in SlotsOf(action.toolName) :
     key \in DOMAIN action.parameters /\ action.parameters[key] # ""}

\* C13: for every tool name of the translation table and every subset of
\* its parameters present in the action, translation emits exactly one
\* statement; every slot whose parameter is absent holds the same empty
\* string placeholder and every other slot holds the value of its parameter.
C13_AbsentParameterPlaceholder ==
  \A i \in DOMAIN subject :
    (generated[i] # NoResult /\ Len(subject[i].actions) = 1
       /\ subject[i].actions[1].toolName \in TranslationTable) =>
      LET action == subject[i].actions[1]
          steps == generated[i].testCase.steps
          present == PresentSlots(action)
      IN /\ Len(steps) = 1
         /\ Occurrences(steps[1], EmptyPlaceholder)
              = Cardinality(SlotsOf(action.toolName) \ present)
         /\ Occurrences(steps[1], Backtick) = 2 * Cardinality(present)
         /\ \A key \in present :
              \E k \in DOMAIN steps[1] : steps[1][k] = action.parameters[key]

\* a fill action with a selector and no text has been translated
C13_Witness ==
  \E i \in DOMAIN subject :
    /\ generated[i] # NoResult
    /\ Len(subject[i].actions) = 1
    /\ subject[i].actions[1].toolName = "type"
    /\ DOMAIN subject[i].actions[1].parameters = {"selector"}
    /\ subject[i].actions[1].parameters["selector"] = "v"
    /\ Len(generated[i].testCase.steps) = 1
    /\ Occurrences(generated[i].testCase.steps[1], EmptyPlaceholder) = 1

\* C14: generation is a function of the actions and the options alone: two
\* sessions with equal action sequences and equal options get the same
\* test text.
C14_GenerationPure ==
  \A i, j \in DOMAIN subject :
    (/\ generated[i] # NoResult
     /\ generated[j] # NoResult
     /\ subject[i].actions = subject[j].actions
     /\ subject[i].options = subject[j].options)
      => generated[i].testCode = generated[j].testCode

\* C15: the testNamePrefix and the outputPath given when the session was
\* started are the ones its generation uses: the test name starts with the
\* prefix of the session and the file is written under the output
\* directory of the session.
C15_SessionOptionsUsed ==
  \A i \in DOMAIN subject :
    generated[i] # NoResult =>
      /\ subject[i].options.testNamePrefix # "undefined"
           => generated[i].testCase.name[1] = subject[i].options.testNamePrefix
      /\ subject[i].options.outputPath # "undefined"
           => generated[i].filePath[1] = subject[i].options.outputPath

\* the call in flight s is a loadSessionFromDisk that returns its session
\* in this step
LoadReturns(s) ==
  /\ task[s] # NoTask
  /\ task[s].kind = "load"
  /\ task'[s] = NoTask
  /\ lastResult'.op = "loadSessionFromDisk"
  /\ lastResult'.value = "session"

\* C16: saving a session and then loading it by the same id leaves the
\* registry holding a session equal to the saved one in every field: id,
\* the actions with their toolName, parameters, timestamp and result,
\* startTime, endTime and options; with nothing in between, the session in
\* the registry is as it was before the load.
C16_SaveLoadRoundTrip ==
  [][\A s \in Slots :
       LoadReturns(s) =>
         LET id == task[s].id
         IN /\ id \in DOMAIN saved
            /\ id \in DOMAIN sessions'
            /\ sessions'[id] = saved[id]
            /\ (id \in DOMAIN sessions /\ sessions[id] = saved[id])
                 => sessions' = sessions]_vars

\* a session with a recorded action, no endTime and options that were not
\* given has been saved and then loaded
C16_Witness ==
  /\ lastResult.op = "loadSessionFromDisk"
  /\ lastResult.value = "session"
  /\ \E id \in DOMAIN sessions \cap DOMAIN saved :
       /\ sessions[id] = saved[id]
       /\ Len(sessions[id].actions) >= 1
       /\ sessions[id].endTime = NoTime
       /\ sessions[id].options.outputPath = "undefined"

CodegenToolOps ==
  {"createSession", "recordAction", "addAction", "generateTestTool",
   "endCodegenSessionTool"}

\* C18: startCodegenSession, recordAction, generateTest and
\* endCodegenSession always return a success payload or an error payload;
\* an unknown session or a failed file write is never raised to the caller.
C18_ToolsReturnPayload ==
  lastResult.op \in CodegenToolOps
    => /\ lastResult.value # "raised"
       /\ lastResult.payload \in {"result", "error"}

\* C19: opening a session with a malformed configuration (an outputPath or
\* a testNamePrefix that is not a string, an includeComments that is not a
\* boolean) fails before any session is created: no session of the
\* registry holds such options.
C19_MalformedOptionsRejected ==
  \A id \in DOMAIN sessions : ValidateOptions(sessions[id].options) = "ok"

\* C20: once startCodegenSession has returned, every browser action
\* performed in that context is recorded in the started session: the
\* operation of a browser tool adds one action at the end of the action
\* list of the session of the context.
C20_BrowserActionsRecorded ==
  [][\A c \in Callers :
       (/\ pc[c] = "operation"
        /\ pc'[c] = "idle"
        /\ ctxSession \in DOMAIN sessions)
         => /\ ctxSession \in DOMAIN sessions'
            /\ Len(sessions'[ctxSession].actions)
                 = Len(sessions[ctxSession].actions) + 1]_vars

(***************************************************************************)
(* Failure of a launch, lines 42-68 of playwrightToolHandler.ts.           *)
(***************************************************************************)

\* The step in which the launch of c, or the creation of the context or of
\* the page that follows it, fails.
LaunchAttemptFails(c) ==
  /\ pc[c] \in {"launch", "newContext", "newPage"}
  /\ failures' = failures + 1

\* The step in which c receives handles from its call.
ReceivesHandles(c) ==
  /\ lastEvent' = <<"ensureReturned", c>>
  /\ calls' # calls \/ pc'[c] # pc[c]

\* C21: when the launch of a browser, or the creation of the context or page
\* that follows it, fails, the error is raised to the launching caller, that
\* call launches nothing more, and no other caller receives a handle that
\* comes from the failed attempt.
C21_LaunchFailurePropagated ==
  [][\A c \in Callers :
       /\ LaunchAttemptFails(c) =>
            /\ acquired'[c] = "raised"
            /\ pc'[c] = "idle"
            /\ launches' = launches
       /\ ReceivesHandles(c) => ret'[c][1] \notin failedLaunches']_vars

(***************************************************************************)
(* Termination of ensureBrowser, lines 33-68.                              *)
(***************************************************************************)

\* C22: provided every launch attempt eventually completes or fails, every
\* ensureBrowser call eventually returns or raises: the flag is cleared when
\* the launching call ends, with handles or with an error, and a waiter is not
\* left in the loop after the launch has ended.
C22_AcquireTerminates ==
  /\ \A c \in Callers : (pc[c] # "idle") ~> (pc[c] = "idle")
  /\ [][\A c \in InLaunch : pc'[c] = "idle" => ~isInitializing']_vars

\* a call that went through the wait loop has ended after a launch failed
C22_Witness ==
  /\ failures >= 1
  /\ \E c \in Callers :
       waited[c] /\ pc[c] = "idle" /\ acquired[c] \in {"returned", "raised"}

(***************************************************************************)
(* The page branch of ensureBrowser, lines 69-75.                          *)
(***************************************************************************)

\* The step in which the call of c evaluates the conditions of lines 42 and
\* 69: on entry with the flag down, or on leaving the wait loop.
ChecksContext(c) ==
  \/ pc[c] = "idle" /\ ~isInitializing /\ calls' # calls
       /\ lastEvent'[2] = c
  \/ pc[c] = "wait" /\ pc'[c] # "wait"

\* C23: an ensureBrowser call on a context whose browser is connected and
\* whose page is missing or closed opens a new page in the existing browser:
\* it launches nothing and leaves the browser handle of the context as it is.
C23_PageReopenedInExistingBrowser ==
  [][\A c \in Callers :
       /\ (ChecksContext(c) /\ BrowserConnected /\ ~PageOpen) =>
            /\ pc'[c] = "newPageExisting"
            /\ launches' = launches
            /\ ctxBrowser' = ctxBrowser
            /\ liveBrowsers' = liveBrowsers
       /\ (pc[c] = "newPageExisting" /\ ReceivesHandles(c)) =>
            /\ ctxPage' \in openPages' \ openPages
            /\ pageOwner'[ctxPage'] = ctxBrowser
            /\ ret'[c] = <<ctxBrowser, ctxPage'>>
            /\ launches' = launches
            /\ ctxBrowser' = ctxBrowser
            /\ liveBrowsers' = liveBrowsers]_vars

\* a context that started with its browser connected and no open page has
\* given a caller a new page of that browser, and nothing was launched
C23_Witness ==
  /\ startKind \in {"pageMissing", "pageClosed"}
  /\ launches = 0
  /\ ctxBrowser = 1
  /\ \E c \in Callers :
       /\ acquired[c] = "returned"
       /\ ret[c] = <<ctxBrowser, ctxPage>>
       /\ ctxPage \in openPages
       /\ pageOwner[ctxPage] = ctxBrowser

(***************************************************************************)
(* The initializing flag, line 24 of playwrightToolHandler.ts.             *)
(***************************************************************************)

\* C24: the lifecycle state, the initializing flag included, belongs to one
\* execution context: a call of ensureBrowser on a context that is READY
\* returns its handles without waiting, also while another context is
\* INITIALIZING.
C24_ContextsIndependent ==
  [][\A c \in Callers :
       OtherEnsureBrowserCall(c) =>
         /\ lastEvent' = <<"ensureReturned", c>>
         /\ ret'[c] = <<otherContext.browser, otherContext.page>>]_vars

(***************************************************************************)
(* The lifetime of a registry entry, lines 94-124 of generator.ts.         *)
(***************************************************************************)

\* C25: a session stays in the registry until removeSession is called for its
\* id: endSession, generateTest, saveSessionToDisk, loadSessionFromDisk,
\* importSession and the list operations delete no entry; after endSession
\* the session is still what getSession and listSessions give, with its
\* endTime set.
C25_SessionStaysUntilRemoved ==
  [][\A id \in DOMAIN sessions :
       /\ id \notin DOMAIN sessions' => RemoveSession(id)
       /\ EndSession(id) =>
            /\ id \in DOMAIN sessions'
            /\ sessions'[id].endTime = now
            /\ sessions'[id].endTime # NoTime
            /\ sessions'[id] \in ListSessions'
       /\ (GetSession(id) /\ sessions[id].endTime # NoTime) =>
            /\ lastResult'.value = "session"
            /\ sessions' = sessions]_vars

\* a session that endSession has ended again is in the registry with its
\* endTime set, and the last call, getSession or listSessions, gave it back
C25_Witness ==
  /\ removedIds = {}
  /\ \E id \in DOMAIN sessions :
       /\ closes[id] >= 2
       /\ sessions[id].endTime # NoTime
       /\ sessions[id] \in ListSessions
  /\ lastResult.op \in {"getSession", "listSessions"}
  /\ lastResult.value \in {"session", "array"}

(***************************************************************************)
(* createSession, lines 53-63 of generator.ts.                             *)
(***************************************************************************)

\* C26: createSession returns a session whose id differs from every id in
\* the registry and from every id issued before, with an empty action list
\* and no endTime, and it leaves the sessions already registered unchanged.
C26_OpenIsFresh ==
  [][\A c \in Callers :
       StartCodegenSession(c) =>
         LET id == ctxSession'
         IN /\ id \notin DOMAIN sessions
            /\ id \notin issuedIds
            /\ DOMAIN sessions' = DOMAIN sessions \cup {id}
            /\ sessions'[id].id = id
            /\ sessions'[id].actions = <<>>
            /\ sessions'[id].endTime = NoTime
            /\ \A other \in DOMAIN sessions :
                 sessions'[other] = sessions[other]]_vars

\* a session was opened after another one had been opened and removed
C26_Witness ==
  /\ removedIds # {}
  /\ lastResult.op = "createSession"
  /\ ctxSession \in DOMAIN sessions
  /\ ctxSession \notin removedIds
  /\ sessions[ctxSession].actions = <<>>
  /\ sessions[ctxSession].endTime = NoTime

(***************************************************************************)
(* endSession on a session already ended, lines 94-103 of generator.ts.    *)
(***************************************************************************)

\* C27: endSession of a session that is already ended returns the session
\* and overwrites its endTime with the time of this second call; the action
\* list is unchanged.
C27_SecondCloseOverwritesEndTime ==
  [][\A id \in DOMAIN sessions :
       (EndSession(id) /\ sessions[id].endTime # NoTime) =>
         /\ lastResult'.op = "endSession"
         /\ lastResult'.value = "session"
         /\ sessions'[id].endTime = now
         /\ sessions'[id].actions = sessions[id].actions
         /\ sessions' = [sessions EXCEPT ![id].endTime = now]]_vars

\* a session was ended, time passed, and endSession has ended it again
C27_Witness ==
  /\ lastResult.op = "endSession"
  /\ lastResult.value = "session"
  /\ now > 1
  /\ \E id \in DOMAIN sessions :
       closes[id] >= 2 /\ sessions[id].endTime = now

(***************************************************************************)
(* addAction on a session already ended, lines 68-89 of generator.ts.      *)
(***************************************************************************)

\* the statements of a generated test
BodyOf(code) == {code.body[k] : k \in DOMAIN code.body}

\* C28: an action recorded in a session that is already ended is accepted:
\* the call returns the new action, the action is added at the end of the
\* list, the endTime is unchanged, and a generation made later includes it.
C28_AppendAfterCloseTolerated ==
  [][/\ \A input \in ActionInputs :
          (/\ RecordAction(Starter, NoSession, input)
           /\ ctxSession \in DOMAIN sessions
           /\ sessions[ctxSession].endTime # NoTime) =>
            /\ lastResult'.value = "action"
            /\ sessions'[ctxSession].actions
                 = Append(sessions[ctxSession].actions,
                          NewAction(input.toolName, input.parameters))
            /\ sessions'[ctxSession].endTime = sessions[ctxSession].endTime
     /\ \A id \in DOMAIN sessions :
          GenerateTestCall(id) =>
            \E s \in Slots :
              /\ task[s] = NoTask
              /\ task'[s].kind = "generate"
              /\ \A k \in DOMAIN sessions[id].actions :
                   sessions[id].actions[k].toolName \in TranslationTable =>
                     ConvertActionToStep(sessions[id].actions[k])
                       \in BodyOf(task'[s].code)]_vars

\* the test written for an ended session holds the statement of an action
\* that was recorded after the session was ended
C28_Witness ==
  /\ lastResult.op = "generateTest"
  /\ lastResult.value = "result"
  /\ \E id \in DOMAIN sessions \cap DOMAIN testFiles :
       /\ sessions[id].endTime # NoTime
       /\ \E k \in DOMAIN sessions[id].actions :
            /\ sessions[id].actions[k].timestamp > sessions[id].endTime
            /\ sessions[id].actions[k].toolName \in TranslationTable
            /\ ConvertActionToStep(sessions[id].actions[k])
                 \in BodyOf(testFiles[id])

(***************************************************************************)
(* The legacy tool names of convertActionToStep, lines 295-374.            *)
(***************************************************************************)

\* the legacy tool names and the tool name each one stands for
CanonicalOf ==
  [playwright_navigate |-> "navigate", playwright_fill |-> "type",
   playwright_click |-> "click", playwright_select |-> "selectOption",
   playwright_hover |-> "hover", playwright_screenshot |-> "screenshot",
   playwright_expect_response |-> "expectResponse",
   playwright_assert_response |-> "assertResponse",
   playwright_custom_user_agent |-> "setUserAgent"]

\* C29: every legacy tool name is translated to the statement its canonical
\* counterpart is translated to, for every parameter mapping: an action
\* recorded under playwright_navigate, playwright_fill, playwright_click,
\* playwright_select, playwright_hover, playwright_screenshot,
\* playwright_expect_response, playwright_assert_response or
\* playwright_custom_user_agent gives the statement of navigate, type,
\* click, selectOption, hover, screenshot, expectResponse, assertResponse or
\* setUserAgent with the same parameters.
C29_AliasesTranslateAlike ==
  \A i \in DOMAIN subject :
    (/\ generated[i] # NoResult
     /\ Len(subject[i].actions) = 1
     /\ subject[i].actions[1].toolName \in DOMAIN CanonicalOf) =>
      LET action == subject[i].actions[1]
          canonical == [action EXCEPT !.toolName = CanonicalOf[action.toolName]]
      IN /\ canonical.toolName \in TranslationTable
         /\ ConvertActionToStep(canonical) # <<>>
         /\ generated[i].testCase.steps = <<ConvertActionToStep(canonical)>>
         /\ generated[i].testCode.body = <<ConvertActionToStep(canonical)>>

\* an action recorded as playwright_fill with a selector and a text has been
\* translated
C29_Witness ==
  \E i \in DOMAIN subject :
    /\ generated[i] # NoResult
    /\ Len(subject[i].actions) = 1
    /\ subject[i].actions[1].toolName = "playwright_fill"
    /\ DOMAIN subject[i].actions[1].parameters = {"selector", "text"}
    /\ subject[i].actions[1].parameters["selector"] = "v"
    /\ Len(generated[i].testCase.steps) = 1
    /\ generated[i].testCase.steps[1][1] = "await page.fill("

(***************************************************************************)
(* The imports of a generated test, lines 276-293 and 512-524.             *)
(***************************************************************************)

\* the names the test declaration of generateTestCode gives to the body:
\* test('...', async ({ page, context }) => { ... })
Fixtures == {"page", "context"}

\* the names a generated statement takes from outside itself: the object
\* its call is made on (lines 376-510)
NamesUsed(step) ==
  CASE step[1] = "await browser.close();" -> {"browser"}
    [] step[1] = "await fs.writeFile(" -> {"fs"}
    [] step[1] \in {"await context.setUserAgent(",
                    "const userAgent = await context.userAgent();"} ->
         {"context"}
    [] step[1] = "// Extract data logic here" -> {}
    [] OTHER -> {"page"}

\* the names the import lines of a generated test bring in
ImportedNames(code) == {code.imports[k] : k \in DOMAIN code.imports}

\* C30: the import set of a generated test is the baseline, test and expect,
\* together with every name its statements need: each name a statement
\* takes from outside is imported or given by the test declaration, so that
\* the file is self-contained.
C30_ImportsCoverStatements ==
  \A i \in DOMAIN subject :
    generated[i] # NoResult =>
      LET code == generated[i].testCode
          needed == UNION {NamesUsed(code.body[k]) : k \in DOMAIN code.body}
      IN /\ {"test", "expect"} \subseteq ImportedNames(code)
         /\ needed \subseteq ImportedNames(code) \cup Fixtures
         /\ ImportedNames(code) = {"test", "expect"} \cup (needed \ Fixtures)

(***************************************************************************)
(* listSavedSessions, lines 222-246 of generator.ts.                       *)
(***************************************************************************)

\* the entries of the array listSavedSessions returned
ListedIds(array) == {array[file] : file \in DOMAIN array}

\* C31: listSavedSessions(directory) returns exactly the ids of the session
\* snapshots saved in that directory, each once; for a directory that does
\* not exist or cannot be read it returns the empty array and does not
\* raise; it never changes the registry.
C31_ListGivesSavedIds ==
  [][ListSavedSessions =>
       /\ ~listing'.raised
       /\ sessions' = sessions
       /\ IF directory.state = "present"
          THEN /\ ListedIds(listing'.ids) = directory.ids
               /\ Cardinality(DOMAIN listing'.ids) = Cardinality(directory.ids)
          ELSE listing'.ids = <<>>]_vars

(***************************************************************************)
(* importSession, lines 251-274 of generator.ts.                           *)
(***************************************************************************)

\* the call in flight s is an importSession that returns its session in
\* this step
ImportReturns(s) ==
  /\ task[s] # NoTask
  /\ task[s].kind = "import"
  /\ task'[s] = NoTask
  /\ lastResult'.op = "importSession"
  /\ lastResult'.value = "session"

\* C32: importSession of a record without id registers the session under a
\* fresh id that differs from every id in the registry, so that it replaces
\* no registered session; importSession of a record with an id registers it
\* under exactly that id.
C32_ImportAssignsId ==
  [][\A s \in Slots :
       ImportReturns(s) =>
         LET text == snapshots[task[s].id]
         IN IF "id" \notin DOMAIN text
            THEN \E id \in SessionIds :
                   /\ id # NoSession
                   /\ id \notin DOMAIN sessions
                   /\ DOMAIN sessions' = DOMAIN sessions \cup {id}
                   /\ sessions'[id] = [JsonParse(text) EXCEPT !.id = id]
                   /\ \A other \in DOMAIN sessions :
                        sessions'[other] = sessions[other]
            ELSE /\ DOMAIN sessions' = DOMAIN sessions \cup {text.id}
                 /\ sessions'[text.id] = JsonParse(text)
                 /\ \A other \in DOMAIN sessions \ {text.id} :
                      sessions'[other] = sessions[other]]_vars

\* a record without id was imported next to session 1, which is as recorded
C32_Witness ==
  /\ lastResult.op = "importSession"
  /\ lastResult.value = "session"
  /\ \E id \in DOMAIN sessions :
       /\ id # 1
       /\ id \notin removedIds
       /\ sessions[id].actions # <<>>
       /\ sessions[id].actions[1].toolName = "click"
  /\ 1 \in DOMAIN sessions
  /\ RecordedInputs(1) = issued[1]
  /\ Len(sessions[1].actions) >= 1

(***************************************************************************)
(* The failures of loadSessionFromDisk and importSession, lines 200-216    *)
(* and 252-273 of generator.ts.                                            *)
(***************************************************************************)

\* the call in flight s is a loadSessionFromDisk or an importSession that
\* raises in this step
ReadRaises(s) ==
  /\ task[s] # NoTask
  /\ task[s].kind \in {"load", "import"}
  /\ task'[s] = NoTask
  /\ lastResult'.value = "raised"
  /\ lastResult'.message # NoMessage

\* C33: a loadSessionFromDisk whose read or parse fails raises an error
\* that names the session id, an importSession whose read or parse fails
\* raises an error that names the path of the file, and the registry is
\* left as it was before the call.
C33_FailureNamesTheRecord ==
  [][\A s \in Slots :
       ReadRaises(s) =>
         /\ sessions' = sessions
         /\ task[s].kind = "load" => lastResult'.message.id = task[s].id
         /\ task[s].kind = "import" => lastResult'.message.path = task[s].id
    ]_vars

(***************************************************************************)
(* The states of a ToolContext between calls: ensureBrowser, lines 42-76   *)
(* of playwrightToolHandler.ts, and closeBrowserTool, lines 139-159 of     *)
(* part_003.                                                               *)
(***************************************************************************)

\* no call of a tool is in progress on the context
NoCallInProgress == \A c \in Callers : pc[c] = "idle"

\* context.browser and context.page are both undefined
Uninitialized == ctxBrowser = NoHandle /\ ctxPage = NoHandle

\* C34: whenever no call is in progress on the context, the context is
\* UNINITIALIZED (no browser handle and no page handle) or READY (a
\* connected browser and an open page of that browser); it never holds a
\* browser without a page, or a closed or disconnected handle.
C34_StableBetweenCalls ==
  NoCallInProgress =>
    \/ Uninitialized
    \/ (Ready /\ pageOwner[ctxPage] = ctxBrowser)

(***************************************************************************)
(* generateTestTool, lines 649-663 of generator.ts: the test text of       *)
(* generateTest (140-149) and the snapshot of saveSessionToDisk (165-180). *)
(***************************************************************************)

\* the call in flight s is a generateTest tool call that returns its result
\* in this step
GenerateTestToolReturns(s) ==
  /\ task[s] # NoTask
  /\ task[s].kind = "tool"
  /\ task[s].tool = "generateTestTool"
  /\ task[s].stage = "saveWrite"
  /\ task'[s] = NoTask
  /\ lastResult'.payload = "result"

\* C35: when the generateTest tool returns its result, the snapshot it saved
\* holds exactly the list of actions the returned test text was translated
\* from, whatever recordAction calls ran while the tool call was in flight.
C35_SnapshotMatchesTest ==
  [][\A s \in Slots :
       GenerateTestToolReturns(s) =>
         /\ task[s].id \in DOMAIN snapshots'
         /\ JsonParse(snapshots'[task[s].id]).actions = task[s].translated
         /\ task[s].code = testFiles'[task[s].id]]_vars

(***************************************************************************)
(* The names of the tools of browserAgent (browserAgent.ts lines 80-119)   *)
(* against the case labels of convertActionToStep (generator.ts 295-374).  *)
(***************************************************************************)

\* C36: every tool name under which a browser action tool is registered
\* with the browser agent is a key of the translation table, so that an
\* action recorded under the name of the tool that performed it yields a
\* generated statement.
C36_RegisteredNamesTranslate ==
  \A i \in DOMAIN subject :
    (generated[i] # NoResult
       /\ subject[i].actions[1].toolName \in RegisteredToolNames) =>
      /\ subject[i].actions[1].toolName \in TranslationTable
      /\ Len(generated[i].testCase.steps) = 1

(***************************************************************************)
(* endCodegenSessionTool, lines 708-745 of generator.ts, followed by       *)
(* recordActionTool, lines 759-788.                                        *)
(***************************************************************************)

\* the call in flight s is an endCodegenSession tool call that returns its
\* result in this step
EndCodegenSessionReturns(s) ==
  /\ task[s] # NoTask
  /\ task[s].kind = "tool"
  /\ task[s].tool = "endCodegenSessionTool"
  /\ task[s].stage = "saveWrite"
  /\ task'[s] = NoTask
  /\ lastResult'.payload = "result"

\* the step is a recordAction call without sessionId that follows the
\* return of an endCodegenSession tool call
RecordFollowsEnd ==
  /\ lastResult.op = "endCodegenSessionTool"
  /\ lastResult.payload = "result"
  /\ ops' = ops + 1
  /\ lastResult'.op \in {"recordAction", "addAction"}

\* C37: after the endCodegenSession tool has returned its result, with or
\* without generateTest, the context does not designate the ended session:
\* a following recordAction call without sessionId returns an error and
\* appends nothing.
C37_EndClearsCurrentSession ==
  [][/\ \A s \in Slots :
          EndCodegenSessionReturns(s) => ctxSession' # task[s].id
     /\ RecordFollowsEnd =>
          /\ lastResult'.payload = "error"
          /\ sessions' = sessions]_vars

====
